---- MODULE Spec2Model ----
(***************************************************************************)
(* Model of the MMS client dispatcher of src/src/mms/client.rs:            *)
(* MmsClient::send_request on the callers' side and                        *)
(* ConnectionHandler::handle_connection with its three handlers on the     *)
(* dispatcher's side.  The state starts right after MmsClient::connect     *)
(* has spawned the dispatcher.                                             *)
(***************************************************************************)
EXTENDS Integers, Sequences, FiniteSets, TLC

\* ------------------------------------------------------------------ bounds
\* Load of one association: the confirmed requests the callers submit and the
\* unconfirmed PDUs the server emits, taken together.
MaxLoad == 3
\* negotiated_max_serv_outstanding_calling of the Initiate response that
\* MmsClient::connect accepted (any value up to the proposed one passes).
NegotiatedCalling == 1
\* Load of one association in the runs checked for termination.
FairLoad == 2
\* DT TPDUs that the longest payload handed to send_data needs.
MaxDts == 2
\* TPKT frames in a stream the peer sends on an open COTP connection.
MaxFrames == 3
\* Writes on one COTP connection, the CR included.
MaxWrites == 2
\* Bytes of a transport selector, and options in a list, given to the encoders.
MaxTselLen == 2
MaxOptions == 3
\* PDV-lists in the fully-encoded-data of one presentation PDU.
MaxPdvs == 2
\* Items in one page a server returns, requests one paginated call makes, and
\* access results in one Read response.
MaxPage == 2
MaxRequests == 4
MaxResults == 3
\* SDUs the server sends while the dispatcher runs, requests submitted
\* meanwhile, and bytes that reach the socket at once
MaxSdus == 2
MaxSubmits == 2
MaxArrive == 4

\* --------------------------------------------------------- program constants
\* mpsc::channel(100)
ChannelCapacity == 100
\* Report::try_from: a report needs at least three access results
MinReportValues == 3

\* ------------------------------------------------------------------- values
Requests == 1..MaxLoad
\* invoke ids the server may put on a PDU: every id the dispatcher can have
\* assigned, and one it never assigned
ServerIds == 0..MaxLoad
NoId == -1
NoRequest == 0
Services == {"read", "write"}
NoService == "none"

\* An InformationReport as Report::try_from sees it: the number of access
\* results, whether one of them is a failure, and a tag telling reports apart.
ReportBody(tag, n, f) == [tag |-> tag, nresults |-> n, failure |-> f]
ReportBodies == {ReportBody("ra", MinReportValues, FALSE), ReportBody("rb", MinReportValues, FALSE),
                 ReportBody("short", MinReportValues - 1, FALSE),
                 ReportBody("failed", MinReportValues, TRUE)}
NoReport == [tag |-> "none", nresults |-> 0, failure |-> FALSE]

Pdu(t, id, svc, rep) == [type |-> t, invoke_id |-> id, service |-> svc, report |-> rep]
NoPdu == Pdu("none", NoId, NoService, NoReport)

ConfirmedResponsePdus == {Pdu("confirmed_Response", id, s, NoReport) : id \in ServerIds, s \in Services}
ConfirmedErrorPdus == {Pdu("confirmed_Error", id, NoService, NoReport) : id \in ServerIds}
\* original_invoke_id is optional: NoId stands for None
RejectPdus == {Pdu("reject", id, NoService, NoReport) : id \in ServerIds \cup {NoId}}
UnconfirmedPdus == {Pdu("unconfirmed", NoId, NoService, rep) : rep \in ReportBodies}
\* initiate_ResponsePDU, initiate_ErrorPDU, conclude_RequestPDU: logged
LoggedPdus == {Pdu(t, NoId, NoService, NoReport) :
                 t \in {"initiate_Response", "initiate_Error", "conclude_Request"}}
\* the `_` arm: confirmed_RequestPDU, initiate_RequestPDU
OtherPdus == {Pdu(t, NoId, NoService, NoReport) : t \in {"confirmed_Request", "initiate_Request"}}

CallerStates == {"idle", "waiting", "ok", "recv_err", "send_err", "cancelled"}

VARIABLES
    client_alive,        \* the MmsClient (the only mpsc::Sender) has not been dropped
    caller,              \* per request: where its send_request future stands
    got,                 \* per request: the Confirmed-Response PDU whose service its future returned
    queue,               \* the mpsc channel: requests (with their oneshot senders) in order
    pc,                  \* dispatcher position: "select", "on_report" or "done"
    invoke_id,           \* handle_connection's local counter
    response_map,        \* invoke id -> request whose oneshot sender is stored
    taken,               \* history: every request taken from the queue, the id passed to
                         \* prepare_request for it, whether a PDU was built and whether it went out
    rx_reports,          \* history: report bodies of the unconfirmed PDUs received, in wire order
    on_report,           \* history: reports handed to ReportCallback::on_report, in call order
    last,                \* the step just taken: operation, PDU processed, request concerned
    cotp_connection,     \* a CotpConnection with its TCP stream, taken by itself
    codec,               \* one run of the TPKT / option encoders and parsers
    assoc,               \* MmsClient::connect: the association being built
    presentation,        \* one PresentationReadHalf::receive_data, taken by itself
    call                 \* one MmsClient operation built on send_request

\* the dispatcher and its callers
dispatcher_vars == <<client_alive, caller, got, queue, pc, invoke_id,
                     response_map, taken, rx_reports, on_report, last>>
\* the lower layers
\* the operations above the dispatcher's loop
upper_vars == <<presentation, call>>
layer_vars == <<cotp_connection, codec, assoc, upper_vars>>
vars == <<dispatcher_vars, layer_vars>>

\* value of a layer variable in the runs that do not exercise that layer
Unused == [pc |-> "unused"]
UpperUnused == presentation = Unused /\ call = Unused

Event(op, pdu, req) == [op |-> op, pdu |-> pdu, req |-> req]

\* ------------------------------------------------------------------ helpers
Range(f) == {f[x] : x \in DOMAIN f}
EmptyMap == [k \in {} |-> NoRequest]

\* HashMap::new()
NewResponseMap == EmptyMap

\* (faulty variant: completes the oldest outstanding waiter, whatever the id)
RemovedSenderOldest(m, id) ==
    IF DOMAIN m = {} THEN NoRequest
    ELSE m[CHOOSE k \in DOMAIN m : \A j \in DOMAIN m : k <= j]
\* HashMap::remove(&id): the value it returns
RemovedSender(m, id) == IF id \in DOMAIN m THEN m[id] ELSE NoRequest
\* (faulty variant: the whole map is cleared)
MapRemoveAll(m, id) == EmptyMap
\* HashMap::remove(&id): the map it leaves
MapRemove(m, id) == [k \in DOMAIN m \ {id} |-> m[k]]
\* HashMap::insert(id, sender): the map it leaves
MapInsert(m, id, r) == [k \in DOMAIN m \cup {id} |-> IF k = id THEN r ELSE m[k]]
\* HashMap::insert(id, sender): the senders it replaces (and drops)
Replaced(m, id) == IF id \in DOMAIN m THEN {m[id]} ELSE {}

\* (faulty variant: the counter is not advanced)
NextInvokeIdStuck(id) == id
\* invoke_id += 1
NextInvokeId(id) == id + 1

\* (faulty variant: the newest message is taken first)
RecvIndexNewest(q) == Len(q)
\* rx.recv() yields the oldest message of the channel
RecvIndex(q) == 1
RemoveAt(q, i) == [j \in 1..(Len(q) - 1) |-> IF j < i THEN q[j] ELSE q[j + 1]]

\* Report::try_from(InformationReport)
ReportTryFrom(rep) == ~rep.failure /\ ~(rep.nresults < MinReportValues)

\* self.report_callback.on_report(report): the calls made so far
\* (faulty variant: a later report overtakes the earlier ones)
OnReportCallOvertakes(log, rep) == <<rep>> \o log
OnReportCall(log, rep) == Append(log, rep)

\* (faulty variant: dropped senders leave their receivers pending)
CloseWaitersLeak(c, S) == c
\* Dropping the oneshot senders of the requests in S: a caller still awaiting
\* its receiver gets RecvError (ReceiveResponse), a dropped receiver sees nothing.
CloseWaiters(c, S) == [r \in Requests |-> IF r \in S /\ c[r] = "waiting" THEN "recv_err" ELSE c[r]]

\* (faulty variant: the value is handed over although the receiver is gone)
OneshotSendIgnoresDrop(c, r) == [c EXCEPT ![r] = "ok"]
\* sender.send(response): reaches the receiver unless the receiver was dropped
OneshotSend(c, r) == [c EXCEPT ![r] = IF c[r] = "waiting" THEN "ok" ELSE c[r]]

\* the requests whose Confirmed-Request went out (send_data returned Ok)
Wire == SelectSeq(taken, LAMBDA t : t.sent)

\* requests submitted so far plus unconfirmed PDUs received so far
Load == Cardinality({r \in Requests : caller[r] # "idle"}) + Len(rx_reports)

\* --------------------------------------------------------------------- Init
Init ==
    /\ client_alive = TRUE
    /\ caller = [r \in Requests |-> "idle"]
    /\ got = [r \in Requests |-> NoPdu]
    /\ queue = <<>>
    /\ pc = "select"
    /\ invoke_id = 0
    /\ response_map = NewResponseMap
    /\ taken = <<>>
    /\ rx_reports = <<>>
    /\ on_report = <<>>
    /\ last = Event("init", NoPdu, NoRequest)
    /\ cotp_connection = Unused
    /\ codec = Unused
    /\ assoc = Unused
    /\ UpperUnused

\* ------------------------------------------------------------ callers' side
\* MmsClient::send_request up to the end of tx.send(..).await
\* Requests are numbered in the order in which tx.send accepts them.
Submit(r) ==
    /\ client_alive
    /\ caller[r] = "idle"
    /\ \A q \in 1..(r - 1) : caller[q] # "idle"
    /\ Load < MaxLoad
    /\ IF pc = "done"
         THEN /\ caller' = [caller EXCEPT ![r] = "send_err"]
              /\ UNCHANGED queue
         ELSE /\ Len(queue) < ChannelCapacity
              /\ caller' = [caller EXCEPT ![r] = "waiting"]
              /\ queue' = Append(queue, r)
    /\ last' = Event("submit", NoPdu, r)
    /\ UNCHANGED <<client_alive, got, pc, invoke_id, response_map,
                   taken, rx_reports, on_report>>
    /\ UNCHANGED layer_vars

\* The caller drops the future of send_request while it awaits the response.
Cancel(r) ==
    /\ caller[r] = "waiting"
    /\ caller' = [caller EXCEPT ![r] = "cancelled"]
    /\ last' = Event("cancel", NoPdu, r)
    /\ UNCHANGED <<client_alive, got, queue, pc, invoke_id,
                   response_map, taken, rx_reports, on_report>>
    /\ UNCHANGED layer_vars

\* The owner drops the MmsClient; the futures of send_request borrow it, so
\* none of them is alive any more.
DropClient ==
    /\ client_alive
    /\ \A r \in Requests : caller[r] # "waiting"
    /\ client_alive' = FALSE
    /\ last' = Event("drop_client", NoPdu, NoRequest)
    /\ UNCHANGED <<caller, got, queue, pc, invoke_id,
                   response_map, taken, rx_reports, on_report>>
    /\ UNCHANGED layer_vars

\* --------------------------------------------------------- dispatcher's side
\* (faulty variant: the arm logs and continues the loop instead of breaking)
TerminateContinues(op) ==
    /\ last' = Event(op, NoPdu, NoRequest)
    /\ UNCHANGED <<client_alive, caller, got, queue, pc, invoke_id,
                   response_map, taken, rx_reports, on_report>>
    /\ UNCHANGED layer_vars
\* handle_connection returns: self is dropped, and with it the response map
\* and the receiver of the channel with the messages still in it.
Terminate(op) ==
    /\ pc' = "done"
    /\ caller' = CloseWaiters(caller, Range(response_map) \cup Range(queue))
    /\ response_map' = EmptyMap
    /\ queue' = <<>>
    /\ last' = Event(op, NoPdu, NoRequest)
    /\ UNCHANGED <<client_alive, got, invoke_id, taken,
                   rx_reports, on_report>>
    /\ UNCHANGED layer_vars

\* receive_data() returned Err: break
RecvError ==
    /\ pc = "select"
    /\ Terminate("recv_err")

\* rx.recv() returned None: break
RecvNone ==
    /\ pc = "select"
    /\ ~client_alive
    /\ queue = <<>>
    /\ Terminate("recv_none")

\* ber::decode failed: continue
RecvDecodeError ==
    /\ pc = "select"
    /\ last' = Event("decode_err", NoPdu, NoRequest)
    /\ UNCHANGED <<client_alive, caller, got, queue, pc,
                   invoke_id, response_map, taken, rx_reports, on_report>>
    /\ UNCHANGED layer_vars

\* handle_confirmed_response
HandleConfirmedResponse(pdu) ==
    LET sender == RemovedSender(response_map, pdu.invoke_id) IN
    /\ response_map' = MapRemove(response_map, pdu.invoke_id)
    /\ IF sender = NoRequest
         THEN UNCHANGED <<caller, got>>
         ELSE /\ caller' = OneshotSend(caller, sender)
              /\ got' = [got EXCEPT ![sender] =
                            IF caller'[sender] = "ok" /\ caller[sender] # "ok" THEN pdu ELSE @]

RecvConfirmedResponse(pdu) ==
    /\ pc = "select"
    /\ pdu \in ConfirmedResponsePdus
    /\ HandleConfirmedResponse(pdu)
    /\ last' = Event("recv", pdu, RemovedSender(response_map, pdu.invoke_id))
    /\ UNCHANGED <<client_alive, queue, pc, invoke_id, taken,
                   rx_reports, on_report>>
    /\ UNCHANGED layer_vars

\* handle_confirmed_error
HandleConfirmedError(pdu) ==
    /\ response_map' = MapRemove(response_map, pdu.invoke_id)
    /\ caller' = CloseWaiters(caller, {RemovedSender(response_map, pdu.invoke_id)})

RecvConfirmedError(pdu) ==
    /\ pc = "select"
    /\ pdu \in ConfirmedErrorPdus
    /\ HandleConfirmedError(pdu)
    /\ last' = Event("recv", pdu, RemovedSender(response_map, pdu.invoke_id))
    /\ UNCHANGED <<client_alive, got, queue, pc, invoke_id, taken,
                   rx_reports, on_report>>
    /\ UNCHANGED layer_vars

\* handle_rejected_pdu
HandleRejectedPdu(pdu) ==
    IF pdu.invoke_id # NoId
      THEN /\ response_map' = MapRemove(response_map, pdu.invoke_id)
           /\ caller' = CloseWaiters(caller, {RemovedSender(response_map, pdu.invoke_id)})
      ELSE UNCHANGED <<response_map, caller>>

RecvReject(pdu) ==
    /\ pc = "select"
    /\ pdu \in RejectPdus
    /\ HandleRejectedPdu(pdu)
    /\ last' = Event("recv", pdu, RemovedSender(response_map, pdu.invoke_id))
    /\ UNCHANGED <<client_alive, got, queue, pc, invoke_id, taken,
                   rx_reports, on_report>>
    /\ UNCHANGED layer_vars

\* (faulty variant: the callback is spawned and the loop goes on at once)
RecvUnconfirmedSpawns(pdu) ==
    /\ pc = "select"
    /\ pdu \in UnconfirmedPdus
    /\ Load < MaxLoad
    /\ rx_reports' = Append(rx_reports, pdu.report)
    /\ IF ReportTryFrom(pdu.report)
         THEN on_report' = OnReportCall(on_report, pdu.report)
         ELSE UNCHANGED on_report
    /\ last' = Event("recv", pdu, NoRequest)
    /\ UNCHANGED <<client_alive, caller, got, queue, pc, invoke_id,
                   response_map, taken>>
    /\ UNCHANGED layer_vars
\* unconfirmed_PDU / informationReport: the callback is called inline
RecvUnconfirmed(pdu) ==
    /\ pc = "select"
    /\ pdu \in UnconfirmedPdus
    /\ Load < MaxLoad
    /\ rx_reports' = Append(rx_reports, pdu.report)
    /\ IF ReportTryFrom(pdu.report)
         THEN /\ on_report' = OnReportCall(on_report, pdu.report)
              /\ pc' = "on_report"
         ELSE UNCHANGED <<on_report, pc>>
    /\ last' = Event("recv", pdu, NoRequest)
    /\ UNCHANGED <<client_alive, caller, got, queue, invoke_id,
                   response_map, taken>>
    /\ UNCHANGED layer_vars

\* report_callback.on_report(report).await completes
OnReportReturn ==
    /\ pc = "on_report"
    /\ pc' = "select"
    /\ last' = Event("on_report_return", NoPdu, NoRequest)
    /\ UNCHANGED <<client_alive, caller, got, queue, invoke_id,
                   response_map, taken, rx_reports, on_report>>
    /\ UNCHANGED layer_vars

\* initiate_ResponsePDU, initiate_ErrorPDU, conclude_RequestPDU and the `_` arm
RecvIgnored(pdu) ==
    /\ pc = "select"
    /\ pdu \in LoggedPdus \cup OtherPdus
    /\ last' = Event("recv", pdu, NoRequest)
    /\ UNCHANGED <<client_alive, caller, got, queue, pc,
                   invoke_id, response_map, taken, rx_reports, on_report>>
    /\ UNCHANGED layer_vars

SendOutcomes == {"ok", "encode_err", "send_err"}
\* (faulty variant: the result of prepare_request and send_data is ignored)
SendSucceededAlways(outcome) == TRUE
\* prepare_request returned Ok and send_data returned Ok
SendSucceeded(outcome) == outcome = "ok"

\* rx.recv() returned Some((request, sender)); outcome is what prepare_request
\* and send_data return for it.
TakeRequest(outcome) ==
    /\ pc = "select"
    /\ queue # <<>>
    /\ LET i == RecvIndex(queue)
           r == queue[i]
       IN /\ queue' = RemoveAt(queue, i)
          /\ taken' = Append(taken, [req |-> r, invoke_id |-> invoke_id,
                                     encoded |-> (outcome # "encode_err"),
                                     sent |-> (outcome = "ok")])
          /\ IF SendSucceeded(outcome)
               THEN /\ response_map' = MapInsert(response_map, invoke_id, r)
                    /\ caller' = CloseWaiters(caller, Replaced(response_map, invoke_id))
                    /\ invoke_id' = NextInvokeId(invoke_id)
               ELSE /\ caller' = CloseWaiters(caller, {r})
                    /\ UNCHANGED <<response_map, invoke_id>>
          /\ last' = Event(outcome, NoPdu, r)
    /\ UNCHANGED <<client_alive, got, pc, rx_reports, on_report>>
    /\ UNCHANGED layer_vars


Next ==
    \/ \E r \in Requests : Submit(r)
    \/ \E r \in Requests : Cancel(r)
    \/ DropClient
    \/ RecvError
    \/ RecvNone
    \/ RecvDecodeError
    \/ \E pdu \in ConfirmedResponsePdus : RecvConfirmedResponse(pdu)
    \/ \E pdu \in ConfirmedErrorPdus : RecvConfirmedError(pdu)
    \/ \E pdu \in RejectPdus : RecvReject(pdu)
    \/ \E pdu \in UnconfirmedPdus : RecvUnconfirmed(pdu)
    \/ OnReportReturn
    \/ \E pdu \in LoggedPdus \cup OtherPdus : RecvIgnored(pdu)
    \/ \E outcome \in SendOutcomes : TakeRequest(outcome)

Spec == Init /\ [][Next]_vars

\* The same program under a lighter load, for the properties of its infinite
\* runs.
NextFair == Next /\ Load' <= FairLoad

\* The dispatcher task is scheduled fairly: select! polls its ready branches
\* in random order, so a branch that is ready again and again is eventually
\* taken, and the awaited report callback returns.
SpecFair ==
    Init /\ [][NextFair]_vars /\ SF_vars(RecvNone) /\ WF_vars(OnReportReturn)

\* =============================================================== COTP / TPKT
\* src/src/mms/cotp.rs.  Bytes are the numbers 0..255.
TPKT_VERSION == 3
COTP_MAX_TPDU_SIZE == 8192
COTP_DT_HEADER_SIZE == 3
TPKT_HEADER_SIZE == 4

\* tags and type codes of the TPDUs and of their options
TAG_TPDU_SIZE == 192    \* 0xc0
TAG_TSEL_SRC == 193     \* 0xc1
TAG_TSEL_DST == 194     \* 0xc2
TAG_SKIPPED == 198      \* 0xc6
TYPE_CR == 224          \* 0xe0
TYPE_CC == 208          \* 0xd0
TYPE_DT == 240          \* 0xf0
DT_LI == 2
EOT_BYTE == 128         \* 0x80
NOEOT_BYTE == 0

\* `as u8`, `as u16`, to_be_bytes and from_be_bytes of a u16
AsU8(n) == n % 256
AsU16(n) == n % 65536
U16ToBe(n) == <<n \div 256, n % 256>>
U16FromBe(b) == b[1] * 256 + b[2]

\* Result<T, Error>; a panic of the task is the outcome "panic"
Ok(v) == [ok |-> TRUE, value |-> v, error |-> "none"]
Err(e) == [ok |-> FALSE, value |-> <<>>, error |-> e]

\* Option<T>
None == <<>>
Some(v) == <<v>>

\* bytes.get(a..b) of a slice: Some iff a <= b <= len
SliceOk(bytes, a, b) == a <= b /\ b <= Len(bytes)
Slice(bytes, a, b) == SubSeq(bytes, a + 1, b)

\* ------------------------------------------------------------------ options
TpduSize(v) == [kind |-> "TpduSize", value |-> v]
TselDst(v) == [kind |-> "TSelDst", value |-> v]
TselSrc(v) == [kind |-> "TSelSrc", value |-> v]

\* TpduSize::from_bytes on a [u8; 3]
TpduSize_from_bytes(bytes) ==
    IF bytes[1] # TAG_TPDU_SIZE THEN Err("InvalidTpduSize")
    ELSE IF bytes[2] # 1 THEN Err("InvalidTpduSize")
    ELSE Ok(TpduSize(bytes[3]))

\* TselDst::from_bytes
TselDst_from_bytes(bytes) ==
    IF Len(bytes) < 1 THEN Err("NotEnoughBytes")
    ELSE IF bytes[1] # TAG_TSEL_DST THEN Err("InvalidTselDst")
    ELSE IF Len(bytes) < 2 THEN Err("NotEnoughBytes")
    ELSE IF ~SliceOk(bytes, 2, 2 + bytes[2]) THEN Err("NotEnoughBytes")
    ELSE Ok(TselDst(Slice(bytes, 2, 2 + bytes[2])))

\* TselSrc::from_bytes
TselSrc_from_bytes(bytes) ==
    IF Len(bytes) < 1 THEN Err("NotEnoughBytes")
    ELSE IF bytes[1] # TAG_TSEL_SRC THEN Err("InvalidTselSrc")
    ELSE IF Len(bytes) < 2 THEN Err("NotEnoughBytes")
    ELSE IF ~SliceOk(bytes, 2, 2 + bytes[2]) THEN Err("NotEnoughBytes")
    ELSE Ok(TselSrc(Slice(bytes, 2, 2 + bytes[2])))

\* (faulty variant: the selectors are written without their length byte)
OptionToBytesNoLength(o) ==
    IF o.kind = "TpduSize" THEN <<TAG_TPDU_SIZE, 1, o.value>>
    ELSE IF o.kind = "TSelDst" THEN <<TAG_TSEL_DST>> \o o.value
    ELSE <<TAG_TSEL_SRC>> \o o.value
\* CotpOptions::to_bytes
OptionToBytes(o) ==
    IF o.kind = "TpduSize" THEN <<TAG_TPDU_SIZE, 1, o.value>>
    ELSE IF o.kind = "TSelDst" THEN <<TAG_TSEL_DST, AsU8(Len(o.value))>> \o o.value
    ELSE <<TAG_TSEL_SRC, AsU8(Len(o.value))>> \o o.value

\* CotpOptions::len
OptionLen(o) == IF o.kind = "TpduSize" THEN 3 ELSE 2 + Len(o.value)

RECURSIVE options_to_bytes(_)
options_to_bytes(options) ==
    IF options = <<>> THEN <<>>
    ELSE OptionToBytes(Head(options)) \o options_to_bytes(Tail(options))

RECURSIVE OptionsLen(_)
OptionsLen(options) ==
    IF options = <<>> THEN 0
    ELSE OptionLen(Head(options)) + OptionsLen(Tail(options))

\* the loop of bytes_to_options; start counts from 0 as in the source
RECURSIVE BytesToOptionsFrom(_, _, _)
BytesToOptionsFrom(bytes, start, options) ==
    IF ~(start < Len(bytes)) THEN Ok(options)
    ELSE LET tag == bytes[start + 1] IN
      IF tag = TAG_TPDU_SIZE THEN
          IF ~SliceOk(bytes, start, start + 3) THEN Err("NotEnoughBytes")
          ELSE LET r == TpduSize_from_bytes(Slice(bytes, start, start + 3))
               IN IF r.ok THEN BytesToOptionsFrom(bytes, start + 3, Append(options, r.value))
                  ELSE r
      ELSE IF tag \in {TAG_TSEL_DST, TAG_TSEL_SRC} THEN
          IF ~(start + 1 < Len(bytes)) THEN Err("panic")
          ELSE LET len == bytes[start + 2] IN
            IF ~SliceOk(bytes, start, start + len + 2) THEN Err("panic")
            ELSE LET b == Slice(bytes, start, start + len + 2)
                     r == IF tag = TAG_TSEL_DST THEN TselDst_from_bytes(b)
                          ELSE TselSrc_from_bytes(b)
                 IN IF r.ok THEN BytesToOptionsFrom(bytes, start + len + 2, Append(options, r.value))
                    ELSE r
      ELSE IF tag = TAG_SKIPPED THEN
          IF ~(start + 1 < Len(bytes)) THEN Err("panic")
          ELSE IF bytes[start + 2] = 1 THEN BytesToOptionsFrom(bytes, start + 3, options)
          ELSE Err("InvalidTpduOption")
      ELSE Err("InvalidTpduOption")

bytes_to_options(bytes) == BytesToOptionsFrom(bytes, 0, <<>>)

\* -------------------------------------------------------------------- TPDUs
\* Cotp::Cr(CrTpdu), Cotp::Cc(CcTpdu) and Cotp::Dt(DtTpdu) as one record shape
ConnTpdu(type, li, dst_ref, src_ref, options) ==
    [type |-> type, li |-> li, dst_ref |-> dst_ref, src_ref |-> src_ref,
     options |-> options, eot |-> "none", data |-> <<>>]
\* CrTpdu::new, CcTpdu::new: the length indicator is cast to a u8
CrTpdu_new(dst_ref, src_ref, options) ==
    ConnTpdu("Cr", AsU8(OptionsLen(options) + 6), dst_ref, src_ref, options)
CcTpdu_new(dst_ref, src_ref, options) ==
    ConnTpdu("Cc", AsU8(OptionsLen(options) + 6), dst_ref, src_ref, options)
\* DtTpdu::new
DtTpdu_new(eot, data) ==
    [type |-> "Dt", li |-> DT_LI, dst_ref |-> 0, src_ref |-> 0,
     options |-> <<>>, eot |-> eot, data |-> data]

\* `eot as u8` and Eot::try_from
EotToByte(eot) == IF eot = "Eot" THEN EOT_BYTE ELSE NOEOT_BYTE
Eot_try_from(b) ==
    IF b = NOEOT_BYTE THEN Ok("NoEot")
    ELSE IF b = EOT_BYTE THEN Ok("Eot")
    ELSE Err("InvalidEot")

\* Cotp::to_bytes: CrTpdu::to_bytes, CcTpdu::to_bytes, DtTpdu::to_bytes
Cotp_to_bytes(t) ==
    IF t.type = "Dt" THEN <<DT_LI, TYPE_DT, EotToByte(t.eot)>> \o t.data
    ELSE <<t.li, IF t.type = "Cr" THEN TYPE_CR ELSE TYPE_CC>>
         \o U16ToBe(t.dst_ref) \o U16ToBe(t.src_ref) \o <<0>>
         \o options_to_bytes(t.options)

\* Cotp::len
Cotp_len(t) == IF t.type = "Dt" THEN 3 + Len(t.data) ELSE t.li + 1

\* CrTpdu::from_bytes / CcTpdu::from_bytes once the type byte is known
ConnTpdu_from_bytes(bytes, type) ==
    IF ~SliceOk(bytes, 2, 4) \/ ~SliceOk(bytes, 4, 6) THEN Err("NotEnoughBytes")
    ELSE IF ~SliceOk(bytes, 7, bytes[1] + 1) THEN Err("NotEnoughBytes")
    ELSE LET o == bytes_to_options(Slice(bytes, 7, bytes[1] + 1))
         IN IF o.ok
              THEN Ok(ConnTpdu(type, bytes[1], U16FromBe(Slice(bytes, 2, 4)),
                               U16FromBe(Slice(bytes, 4, 6)), o.value))
              ELSE o

\* DtTpdu::from_bytes once the type byte is known
DtTpdu_from_bytes(bytes) ==
    IF bytes[1] # DT_LI THEN Err("InvalidLiValue")
    ELSE IF Len(bytes) < 3 THEN Err("NotEnoughBytes")
    ELSE LET e == Eot_try_from(bytes[3])
         IN IF e.ok THEN Ok(DtTpdu_new(e.value, Slice(bytes, 3, Len(bytes))))
            ELSE e

\* Cotp::from_bytes
Cotp_from_bytes(bytes) ==
    IF Len(bytes) < 2 THEN Err("NotEnoughBytes")
    ELSE IF bytes[2] = TYPE_CR THEN ConnTpdu_from_bytes(bytes, "Cr")
    ELSE IF bytes[2] = TYPE_CC THEN ConnTpdu_from_bytes(bytes, "Cc")
    ELSE IF bytes[2] = TYPE_DT THEN DtTpdu_from_bytes(bytes)
    ELSE Err("InvalidTpduType")

\* --------------------------------------------------------------------- TPKT
\* (faulty variant: the length field counts the TPDU without the header)
Tpkt_from_cotp_short(cotp) == [length |-> AsU16(Cotp_len(cotp)), cotp |-> cotp]
\* Tpkt::from_cotp
Tpkt_from_cotp(cotp) ==
    [length |-> AsU16(Cotp_len(cotp) + TPKT_HEADER_SIZE), cotp |-> cotp]

\* Tpkt::to_bytes
Tpkt_to_bytes(tpkt) ==
    <<TPKT_VERSION, 0>> \o U16ToBe(tpkt.length) \o Cotp_to_bytes(tpkt.cotp)

\* what read_tpkt returns for a readable TPKT: the TPKT and the bytes that
\* stay unread on the connection
ReadOk(v, rest) == [ok |-> TRUE, value |-> v, error |-> "none", rest |-> rest]

\* (faulty variant: the version and the reserved byte are not looked at)
read_tpkt_any_header(stream) ==
    IF Len(stream) < TPKT_HEADER_SIZE THEN Err("Whatever")
    ELSE LET length == U16FromBe(Slice(stream, 2, TPKT_HEADER_SIZE)) IN
      IF length < TPKT_HEADER_SIZE THEN Err("panic")
      ELSE IF Len(stream) < length THEN Err("Whatever")
      ELSE LET c == Cotp_from_bytes(Slice(stream, TPKT_HEADER_SIZE, length))
           IN IF c.ok
                THEN ReadOk(Tpkt_from_cotp(c.value), Slice(stream, length, Len(stream)))
                ELSE c
\* CotpConnection::read_tpkt on a connection whose unread bytes are `stream`
\* and which is closed after them
read_tpkt(stream) ==
    IF Len(stream) < TPKT_HEADER_SIZE THEN Err("Whatever")
    ELSE IF stream[1] # TPKT_VERSION THEN Err("InvalidTpktVersion")
    ELSE IF stream[2] # 0 THEN Err("InvalidTpktVersion")
    ELSE LET length == U16FromBe(Slice(stream, 2, TPKT_HEADER_SIZE)) IN
      IF length < TPKT_HEADER_SIZE THEN Err("panic")
      ELSE IF Len(stream) < length THEN Err("Whatever")
      ELSE LET c == Cotp_from_bytes(Slice(stream, TPKT_HEADER_SIZE, length))
           IN IF c.ok
                THEN ReadOk(Tpkt_from_cotp(c.value), Slice(stream, length, Len(stream)))
                ELSE c

\* --------------------------------------------------------- CotpConnection
LOCAL_REF == 1
Min(a, b) == IF a < b THEN a ELSE b
\* usize::div_ceil
DivCeil(a, b) == (a + b - 1) \div b

\* the TPKTs that the loop of send_data appends to its buffer: one per chunk
\* of data.chunks(max_dt_data_size), i being the index of enumerate()
RECURSIVE SendDataTpkts(_, _, _, _)
SendDataTpkts(data, max_dt_data_size, i, num_dts) ==
    IF data = <<>> THEN <<>>
    ELSE LET n == Min(max_dt_data_size, Len(data))
             eot == IF i = num_dts - 1 THEN "Eot" ELSE "NoEot"
         IN <<Tpkt_from_cotp(DtTpdu_new(eot, SubSeq(data, 1, n)))>>
            \o SendDataTpkts(SubSeq(data, n + 1, Len(data)), max_dt_data_size,
                             i + 1, num_dts)

send_data_tpkts(tpdu_size, data) ==
    LET max_dt_data_size == tpdu_size - COTP_DT_HEADER_SIZE
    IN SendDataTpkts(data, max_dt_data_size, 0, DivCeil(Len(data), max_dt_data_size))

RECURSIVE TpktsToBytes(_)
TpktsToBytes(tpkts) ==
    IF tpkts = <<>> THEN <<>>
    ELSE Tpkt_to_bytes(Head(tpkts)) \o TpktsToBytes(Tail(tpkts))

\* CotpConnection::send_data: the buffer handed to write_all
send_data(tpdu_size, data) == TpktsToBytes(send_data_tpkts(tpdu_size, data))

\* the loop of CotpConnection::receive_data
RECURSIVE ReceiveDataLoop(_, _)
ReceiveDataLoop(stream, data) ==
    LET r == read_tpkt(stream) IN
    IF ~r.ok THEN r
    ELSE IF r.value.cotp.type # "Dt" THEN Err("WrongCotpType")
    ELSE IF r.value.cotp.eot = "Eot" THEN ReadOk(data \o r.value.cotp.data, r.rest)
    ELSE ReceiveDataLoop(r.rest, data \o r.value.cotp.data)

receive_data(stream) == ReceiveDataLoop(stream, <<>>)

\* request_connection: the options and the CR it writes
CrOptions(local_t_sel, remote_t_sel) ==
    <<TpduSize(AsU8(COTP_MAX_TPDU_SIZE)), TselDst(remote_t_sel), TselSrc(local_t_sel)>>
CrBytes(local_t_sel, remote_t_sel) ==
    Tpkt_to_bytes(Tpkt_from_cotp(CrTpdu_new(0, LOCAL_REF,
                                            CrOptions(local_t_sel, remote_t_sel))))

\* (faulty variant: any CC is taken, whatever reference it carries)
RequestConnectionAnyCc(stream) ==
    LET r == read_tpkt(stream) IN
    IF ~r.ok THEN r
    ELSE IF r.value.cotp.type # "Cc" THEN Err("WrongCotpType")
    ELSE ReadOk(COTP_MAX_TPDU_SIZE, r.rest)
\* request_connection after the CR: the tpdu_size of the CotpConnection it
\* returns, or its error
RequestConnectionResult(stream) ==
    LET r == read_tpkt(stream) IN
    IF ~r.ok THEN r
    ELSE IF r.value.cotp.type # "Cc" THEN Err("WrongCotpType")
    ELSE IF r.value.cotp.dst_ref = LOCAL_REF THEN ReadOk(COTP_MAX_TPDU_SIZE, r.rest)
    ELSE Err("ConnectionFailed")

\* ------------------------------------------------- a COTP connection by itself
\* Neither the dispatcher nor an MmsClient exists in the runs of the layers
\* below them.
DispatcherAbsent ==
    /\ client_alive = FALSE
    /\ caller = [r \in Requests |-> "idle"]
    /\ got = [r \in Requests |-> NoPdu]
    /\ queue = <<>>
    /\ pc = "absent"
    /\ invoke_id = 0
    /\ response_map = EmptyMap
    /\ taken = <<>>
    /\ rx_reports = <<>>
    /\ on_report = <<>>
    /\ last = Event("init", NoPdu, NoRequest)

\* config.local_t_sel / config.remote_t_sel: the default and another one
TSelectors == {<<0, 1>>, <<1>>}

\* What the peer puts on the TCP stream: TPKT frames, each a TPDU behind a
\* version byte and a reserved byte of the peer's choosing.
Frame(version, reserved, tpdu) == [version |-> version, reserved |-> reserved, tpdu |-> tpdu]
FrameBytes(f) ==
    <<f.version, f.reserved>> \o U16ToBe(AsU16(Cotp_len(f.tpdu) + TPKT_HEADER_SIZE))
    \o Cotp_to_bytes(f.tpdu)
RECURSIVE StreamBytes(_)
StreamBytes(frames) ==
    IF frames = <<>> THEN <<>>
    ELSE FrameBytes(Head(frames)) \o StreamBytes(Tail(frames))
WellFramed(f) == f.version = TPKT_VERSION /\ f.reserved = 0

\* TPDUs a peer (which calls its own reference 5) may answer a CR with
ReplyTpdus ==
    {CcTpdu_new(d, 5, o) :
        d \in {0, LOCAL_REF, 2},
        o \in {<<>>, <<TpduSize(7)>>, <<TpduSize(13), TselSrc(<<0, 1>>)>>}}
    \cup {CrTpdu_new(LOCAL_REF, 5, <<>>), DtTpdu_new("Eot", <<>>)}
\* the stream after the CR: one frame, or nothing before the peer closes
ConnectReplies ==
    {<<Frame(v, r, t)>> : v \in {TPKT_VERSION, 2}, r \in {0, 1}, t \in ReplyTpdus}
    \cup {<<>>}

\* payloads handed to send_data: empty, short, the 130 bytes of a two-segment
\* transfer at TPDU size 128, and one byte more than MaxDts - 1 full TPDUs
Payload(n) == [i \in 1..n |-> (i * 7) % 256]
PayloadLens ==
    {0, 1, 130, (MaxDts - 1) * (COTP_MAX_TPDU_SIZE - COTP_DT_HEADER_SIZE) + 1}
Payloads == {Payload(n) : n \in PayloadLens}

\* frames a peer may send on the open connection, and its streams
DataFrames ==
    {Frame(TPKT_VERSION, 0, DtTpdu_new("Eot", <<7, 14>>)),
     Frame(TPKT_VERSION, 0, DtTpdu_new("NoEot", <<21>>)),
     Frame(2, 0, DtTpdu_new("Eot", <<9>>)),
     Frame(TPKT_VERSION, 1, DtTpdu_new("Eot", <<9>>)),
     Frame(TPKT_VERSION, 0, CcTpdu_new(LOCAL_REF, 5, <<>>))}
RECURSIVE SeqsUpTo(_, _)
SeqsUpTo(S, n) ==
    IF n = 0 THEN {<<>>}
    ELSE LET shorter == SeqsUpTo(S, n - 1)
         IN shorter \cup {Append(s, x) : s \in shorter, x \in S}
InStreams == SeqsUpTo(DataFrames, MaxFrames)

\* what the last operation on the connection was given and what it produced:
\* `frames` the peer's stream it read, `data` the payload passed in or returned,
\* `dts` the TPKTs it built and `buffer` the bytes it handed to write_all
CotpResult(op, ok, error, frames, data, dts, buffer) ==
    [op |-> op, ok |-> ok, error |-> error, frames |-> frames, data |-> data,
     dts |-> dts, buffer |-> buffer]

CotpInit ==
    /\ DispatcherAbsent
    /\ codec = Unused
    /\ assoc = Unused
    /\ UpperUnused
    /\ \E l \in TSelectors, r \in TSelectors :
         cotp_connection = [pc |-> "new", local_t_sel |-> l, remote_t_sel |-> r,
                            tpdu_size |-> 0, writes |-> 0, cr |-> <<>>, cc |-> <<>>,
                            result |-> CotpResult("none", TRUE, "none", <<>>, <<>>,
                                                  <<>>, <<>>)]

\* request_connection up to the end of write_all
CotpSendCr ==
    /\ cotp_connection.pc = "new"
    /\ cotp_connection' =
         [cotp_connection EXCEPT
            !.pc = "cr_sent",
            !.writes = 1,
            !.cr = CrBytes(cotp_connection.local_t_sel, cotp_connection.remote_t_sel)]
    /\ UNCHANGED <<dispatcher_vars, codec, assoc, upper_vars>>

\* request_connection from read_tpkt on: the peer answered with `frames`
CotpRecvCc(frames) ==
    /\ cotp_connection.pc = "cr_sent"
    /\ LET r == RequestConnectionResult(StreamBytes(frames))
       IN cotp_connection' =
            [cotp_connection EXCEPT
               !.pc = IF r.ok THEN "open" ELSE "failed",
               !.tpdu_size = IF r.ok THEN r.value ELSE 0,
               !.cc = frames,
               !.result = CotpResult("connect", r.ok, r.error, frames, <<>>, <<>>, <<>>)]
    /\ UNCHANGED <<dispatcher_vars, codec, assoc, upper_vars>>

\* send_data(data) on the CotpConnection that request_connection returned
CotpSendData(data) ==
    /\ cotp_connection.pc = "open"
    /\ cotp_connection.writes < MaxWrites
    /\ cotp_connection' =
         [cotp_connection EXCEPT
            !.writes = @ + 1,
            !.result = CotpResult("send_data", TRUE, "none", <<>>, data,
                                  send_data_tpkts(cotp_connection.tpdu_size, data),
                                  send_data(cotp_connection.tpdu_size, data))]
    /\ UNCHANGED <<dispatcher_vars, codec, assoc, upper_vars>>

\* receive_data() while the peer's stream is `frames`
CotpReceiveData(frames) ==
    /\ cotp_connection.pc = "open"
    /\ LET r == receive_data(StreamBytes(frames))
       IN cotp_connection' =
            [cotp_connection EXCEPT
               !.result = CotpResult("receive_data", r.ok, r.error, frames, r.value,
                                     <<>>, <<>>)]
    /\ UNCHANGED <<dispatcher_vars, codec, assoc, upper_vars>>

\* The two directions of a connection do not share state (split() hands them
\* to different owners), so each is explored with the connection setup alone.
CotpSendNext ==
    \/ CotpSendCr
    \/ \E frames \in ConnectReplies : CotpRecvCc(frames)
    \/ \E data \in Payloads : CotpSendData(data)

SpecCotpSend == CotpInit /\ [][CotpSendNext]_vars

CotpRecvNext ==
    \/ CotpSendCr
    \/ \E frames \in ConnectReplies : CotpRecvCc(frames)
    \/ \E frames \in InStreams : CotpReceiveData(frames)

SpecCotpRecv == CotpInit /\ [][CotpRecvNext]_vars

\* ------------------------------------------- the encoders and parsers alone
\* option values: a TPDU-size byte, and t-selectors of up to MaxTselLen bytes
\* (1 is an ordinary byte, 194 is also the tag of an option)
TselValues == SeqsUpTo({1, 194}, MaxTselLen)
\* an option is drawn as <<kind, bytes>> and built by the constructors
OptionDraws ==
    ({"TpduSize"} \X {<<13>>, <<194>>}) \cup ({"TSelDst", "TSelSrc"} \X TselValues)
MakeOption(d) ==
    IF d[1] = "TpduSize" THEN TpduSize(d[2][1])
    ELSE IF d[1] = "TSelDst" THEN TselDst(d[2])
    ELSE TselSrc(d[2])
OptionListDraws == SeqsUpTo(OptionDraws, MaxOptions)
MakeOptions(ds) == [i \in DOMAIN ds |-> MakeOption(ds[i])]

\* the largest TPDU whose TPKT length still fits 16 bits
MAX_TPDU_LEN == 65535 - TPKT_HEADER_SIZE
\* TPDUs handed to Tpkt::from_cotp
DtInputs ==
    {DtTpdu_new(e, Payload(n)) :
        e \in {"Eot", "NoEot"}, n \in {0, 1, 5, MAX_TPDU_LEN - COTP_DT_HEADER_SIZE}}
References == {<<0, 1>>, <<4660, 22136>>}

\* what a peer may put on the connection: a TPKT header whose length field
\* is below the size of the header itself, alone or with bytes after it
ShortHeaders ==
    {<<v, 0>> \o U16ToBe(n) \o rest :
        v \in {TPKT_VERSION, 2}, n \in 0..(TPKT_HEADER_SIZE - 1),
        rest \in {<<>>, <<DT_LI, TYPE_DT, EOT_BYTE>>}}

Codec(codec_pc, kind, input, bytes, output) ==
    [pc |-> codec_pc, kind |-> kind, input |-> input, bytes |-> bytes, output |-> output]

CodecInit ==
    /\ DispatcherAbsent
    /\ cotp_connection = Unused
    /\ assoc = Unused
    /\ UpperUnused
    /\ \/ \E t \in DtInputs : codec = Codec("input", "tpkt", t, <<>>, Ok(<<>>))
       \/ \E r \in References, ds \in OptionListDraws :
             \/ codec = Codec("input", "tpkt", CrTpdu_new(r[1], r[2], MakeOptions(ds)),
                              <<>>, Ok(<<>>))
             \/ codec = Codec("input", "tpkt", CcTpdu_new(r[1], r[2], MakeOptions(ds)),
                              <<>>, Ok(<<>>))
       \/ \E ds \in OptionListDraws :
             codec = Codec("input", "options", MakeOptions(ds), <<>>, Ok(<<>>))
       \/ \E h \in ShortHeaders : codec = Codec("encoded", "header", <<>>, h, Ok(<<>>))

\* Tpkt::from_cotp(cotp).to_bytes()
CodecTpktToBytes ==
    /\ codec.pc = "input" /\ codec.kind = "tpkt"
    /\ codec' = [codec EXCEPT !.pc = "encoded",
                              !.bytes = Tpkt_to_bytes(Tpkt_from_cotp(codec.input))]
    /\ UNCHANGED <<dispatcher_vars, cotp_connection, assoc, upper_vars>>

\* read_tpkt on a connection that delivers these bytes
CodecReadTpkt ==
    /\ codec.pc = "encoded" /\ codec.kind = "tpkt"
    /\ codec' = [codec EXCEPT !.pc = "decoded", !.output = read_tpkt(codec.bytes)]
    /\ UNCHANGED <<dispatcher_vars, cotp_connection, assoc, upper_vars>>

\* read_tpkt on a connection that delivers a header with a short length
CodecReadShortTpkt ==
    /\ codec.pc = "encoded" /\ codec.kind = "header"
    /\ codec' = [codec EXCEPT !.pc = "decoded", !.output = read_tpkt(codec.bytes)]
    /\ UNCHANGED <<dispatcher_vars, cotp_connection, assoc, upper_vars>>

\* options_to_bytes(&options)
CodecOptionsToBytes ==
    /\ codec.pc = "input" /\ codec.kind = "options"
    /\ codec' = [codec EXCEPT !.pc = "encoded", !.bytes = options_to_bytes(codec.input)]
    /\ UNCHANGED <<dispatcher_vars, cotp_connection, assoc, upper_vars>>

\* bytes_to_options(&bytes)
CodecBytesToOptions ==
    /\ codec.pc = "encoded" /\ codec.kind = "options"
    /\ codec' = [codec EXCEPT !.pc = "decoded", !.output = bytes_to_options(codec.bytes)]
    /\ UNCHANGED <<dispatcher_vars, cotp_connection, assoc, upper_vars>>

CodecNext ==
    \/ CodecTpktToBytes
    \/ CodecReadTpkt
    \/ CodecReadShortTpkt
    \/ CodecOptionsToBytes
    \/ CodecBytesToOptions

SpecCodec == CodecInit /\ [][CodecNext]_vars

\* =================================================================== session
\* src/src/mms/session.rs
MAX_SESSION_SELECTOR_SIZE == 16
\* SpduType
SPDU_GIVE_TOKEN_DATA == 1
SPDU_NOT_FINISHED == 8
SPDU_FINISH == 9
SPDU_DISCONNECT == 10
SPDU_REFUSE == 12
SPDU_CONNECT == 13
SPDU_ACCEPT == 14
SPDU_ABORT == 25
\* Pgi
PGI_CONNECTION_IDENTIFIER == 1
PGI_CONNECT_ACCEPT_ITEM == 5
PGI_TRANSPORT_DISCONNECT == 17
PGI_SESSION_USER_REQUIREMENTS == 20
PGI_CALLING_SESSION_SELECTOR == 51
PGI_CALLED_SESSION_SELECTOR == 52
PGI_USER_DATA == 193
\* Pi
PI_PROTOCOL_OPTIONS == 19
PI_VERSION_NUMBER == 22
PI_REASON_CODE == 50
\* the parameters that parse_connect_accept_item skips
SkippedPis == {21, 23, 26, PI_REASON_CODE, 55, 56, 57, 58}
\* SessionRequirement
DUPLEX == 2
SessionRequirements == {1, DUPLEX, 4, 8, 16, 32, 128, 256}
\* the version that encode_connect_accept_item writes and the parser requires
SESSION_VERSION == 2

\* to_le_bytes / from_le_bytes of a u16
U16ToLe(n) == <<n % 256, n \div 256>>
U16FromLe(b) == b[1] + 256 * b[2]

\* impl From<u8> for SpduType
SpduType_from(value) ==
    CASE value = SPDU_GIVE_TOKEN_DATA -> "GiveTokenData"
      [] value = SPDU_NOT_FINISHED -> "NotFinished"
      [] value = SPDU_FINISH -> "Finish"
      [] value = SPDU_DISCONNECT -> "Disconnect"
      [] value = SPDU_REFUSE -> "Refuse"
      [] value = SPDU_CONNECT -> "Connect"
      [] value = SPDU_ACCEPT -> "Accept"
      [] value = SPDU_ABORT -> "Abort"
      [] OTHER -> "Invalid"

\* SSelector::from_bytes
SSelector_from_bytes(bytes) ==
    IF Len(bytes) > MAX_SESSION_SELECTOR_SIZE THEN Err("InvalidSelectorSize")
    ELSE Ok([value |-> bytes])

\* SSelector::to_bytes
SSelector_to_bytes(s) == <<AsU8(Len(s.value))>> \o s.value

\* ConnectSpdu::new
ConnectSpdu_new(calling, called, requirement, data) ==
    [calling_session_selector |-> Some(calling),
     called_session_selector |-> Some(called),
     session_requirement |-> requirement,
     protocol_options |-> 0,
     data |-> data]

\* ConnectSpdu::encode_connect_accept_item
encode_connect_accept_item(options) ==
    <<PGI_CONNECT_ACCEPT_ITEM, 6, PI_PROTOCOL_OPTIONS, 1, options,
      PI_VERSION_NUMBER, 1, SESSION_VERSION>>

\* ConnectSpdu::encode_session_requirement
encode_session_requirement(spdu) ==
    <<PGI_SESSION_USER_REQUIREMENTS, 2>> \o U16ToLe(spdu.session_requirement)

\* ConnectSpdu::encode_calling_session_selector
encode_calling_session_selector(spdu) ==
    IF spdu.calling_session_selector = None THEN <<>>
    ELSE <<PGI_CALLING_SESSION_SELECTOR>>
           \o SSelector_to_bytes(spdu.calling_session_selector[1])

\* ConnectSpdu::encode_called_session_selector
encode_called_session_selector(spdu) ==
    IF spdu.called_session_selector = None THEN <<>>
    ELSE <<PGI_CALLED_SESSION_SELECTOR>>
           \o SSelector_to_bytes(spdu.called_session_selector[1])

\* ConnectSpdu::to_bytes: the length indicator and the length of the user
\* data are single bytes, written with `as u8`
ConnectSpdu_to_bytes(spdu) ==
    LET head == encode_connect_accept_item(0)
                  \o encode_session_requirement(spdu)
                  \o encode_calling_session_selector(spdu)
                  \o encode_called_session_selector(spdu)
                  \o <<PGI_USER_DATA, AsU8(Len(spdu.data))>>
    IN <<SPDU_CONNECT, AsU8(Len(head) + Len(spdu.data))>> \o head \o spdu.data

\* ConnectSpdu::parse_connect_accept_item: the loop from `offset` on
RECURSIVE ParseConnectAcceptItemFrom(_, _, _, _, _)
ParseConnectAcceptItemFrom(bytes, offset, has_protocol_options, has_protocol_version, protocol_options) ==
    IF ~(offset < Len(bytes))
      THEN IF has_protocol_options /\ has_protocol_version
             THEN Ok(protocol_options)
             ELSE Err("MissingRequiredParameters")
    ELSE IF offset + 1 >= Len(bytes) THEN Err("UnexpectedEndOfMessage")
    ELSE LET pi == bytes[offset + 1]
             param_len == bytes[offset + 2]
             at == offset + 2
         IN IF pi = PI_PROTOCOL_OPTIONS
              THEN IF param_len # 1 THEN Err("InvalidParameterLength")
                   ELSE IF at >= Len(bytes) THEN Err("panic")
                   ELSE ParseConnectAcceptItemFrom(bytes, at + 1, TRUE,
                                                   has_protocol_version, bytes[at + 1])
            ELSE IF pi = PI_VERSION_NUMBER
              THEN IF param_len # 1 THEN Err("InvalidParameterLength")
                   ELSE IF at >= Len(bytes) THEN Err("panic")
                   ELSE IF bytes[at + 1] # SESSION_VERSION THEN Err("InvalidVersion")
                   ELSE ParseConnectAcceptItemFrom(bytes, at + 1, has_protocol_options,
                                                   TRUE, protocol_options)
            ELSE IF pi \in SkippedPis
              THEN ParseConnectAcceptItemFrom(bytes, at + param_len, has_protocol_options,
                                              has_protocol_version, protocol_options)
            ELSE Err("InvalidParameter")

\* (faulty variant: the item is taken as it comes, its version is not looked at)
parse_connect_accept_item_any(bytes) == Ok(0)
\* ConnectSpdu::parse_connect_accept_item
parse_connect_accept_item(bytes) == ParseConnectAcceptItemFrom(bytes, 0, FALSE, FALSE, 0)

\* the end of ConnectSpdu::from_bytes: the three required parameters
ConnectSpduBuilt(acc) ==
    IF acc.session_requirement = None THEN Err("MissingSessionRequirement")
    ELSE IF acc.protocol_options = None THEN Err("MissingProtocolOptions")
    ELSE IF acc.data = None THEN Err("MissingUserData")
    ELSE Ok([calling_session_selector |-> acc.calling_session_selector,
             called_session_selector |-> acc.called_session_selector,
             session_requirement |-> acc.session_requirement[1],
             protocol_options |-> acc.protocol_options[1],
             data |-> acc.data[1]])

\* ConnectSpdu::from_bytes: the loop from `offset` on
RECURSIVE ConnectSpduFrom(_, _, _)
ConnectSpduFrom(bytes, offset, acc) ==
    IF ~(offset < Len(bytes)) THEN ConnectSpduBuilt(acc)
    ELSE IF offset + 1 >= Len(bytes) THEN Err("panic")
    ELSE LET pgi == bytes[offset + 1]
             param_len == bytes[offset + 2]
             at == offset + 2
             param == Slice(bytes, at, at + param_len)
         IN IF pgi = PGI_CONNECT_ACCEPT_ITEM
              THEN IF ~SliceOk(bytes, at, at + param_len) THEN Err("NotEnoughBytes")
                   ELSE LET r == parse_connect_accept_item(param)
                        IN IF ~r.ok THEN Err(r.error)
                           ELSE ConnectSpduFrom(bytes, at + param_len,
                                    [acc EXCEPT !.protocol_options = Some(r.value)])
            ELSE IF pgi = PGI_SESSION_USER_REQUIREMENTS
              THEN IF param_len # 2 THEN Err("InvalidParameterLength")
                   ELSE IF at + 1 >= Len(bytes) THEN Err("NotEnoughBytes")
                   ELSE LET req == U16FromLe(<<bytes[at + 1], bytes[at + 2]>>)
                        IN IF req \notin SessionRequirements
                             THEN Err("InvalidSessionRequirement")
                             ELSE ConnectSpduFrom(bytes, at + param_len,
                                      [acc EXCEPT !.session_requirement = Some(req)])
            ELSE IF pgi = PGI_CALLING_SESSION_SELECTOR
              THEN IF ~SliceOk(bytes, at, at + param_len) THEN Err("NotEnoughBytes")
                   ELSE LET r == SSelector_from_bytes(param)
                        IN IF ~r.ok THEN Err(r.error)
                           ELSE ConnectSpduFrom(bytes, at + param_len,
                                    [acc EXCEPT !.calling_session_selector = Some(r.value)])
            ELSE IF pgi = PGI_CALLED_SESSION_SELECTOR
              THEN IF ~SliceOk(bytes, at, at + param_len) THEN Err("NotEnoughBytes")
                   ELSE LET r == SSelector_from_bytes(param)
                        IN IF ~r.ok THEN Err(r.error)
                           ELSE ConnectSpduFrom(bytes, at + param_len,
                                    [acc EXCEPT !.called_session_selector = Some(r.value)])
            ELSE IF pgi = PGI_USER_DATA
              THEN IF ~SliceOk(bytes, at, at + param_len) THEN Err("NotEnoughBytes")
                   ELSE ConnectSpduBuilt([acc EXCEPT !.data = Some(param)])
            ELSE ConnectSpduFrom(bytes, at + param_len, acc)

\* ConnectSpdu::from_bytes
ConnectSpdu_from_bytes(bytes) ==
    ConnectSpduFrom(bytes, 2,
        [calling_session_selector |-> None, called_session_selector |-> None,
         session_requirement |-> None, protocol_options |-> None, data |-> None])

\* AcceptSpdu::from_bytes
AcceptSpdu_from_bytes(bytes) ==
    LET c == ConnectSpdu_from_bytes(bytes)
    IN IF ~c.ok THEN c
       ELSE Ok([called_session_selector |-> c.value.called_session_selector,
                session_requirement |-> c.value.session_requirement,
                protocol_options |-> c.value.protocol_options,
                data |-> c.value.data])

\* AcceptSpdu::to_bytes
AcceptSpdu_to_bytes(spdu) ==
    LET head == <<PGI_CONNECT_ACCEPT_ITEM, 6, PI_PROTOCOL_OPTIONS, 1, spdu.protocol_options,
                  PI_VERSION_NUMBER, 1, SESSION_VERSION>>
                  \o <<PGI_SESSION_USER_REQUIREMENTS, 2>> \o U16ToLe(spdu.session_requirement)
                  \o (IF spdu.called_session_selector = None THEN <<>>
                      ELSE <<PGI_CALLED_SESSION_SELECTOR>>
                             \o SSelector_to_bytes(spdu.called_session_selector[1]))
                  \o <<PGI_USER_DATA, AsU8(Len(spdu.data))>>
    IN <<SPDU_ACCEPT, AsU8(Len(head) + Len(spdu.data))>> \o head \o spdu.data

\* DataSpdu::new
DataSpdu_new(data) == [data |-> data]

\* (faulty variant: the prelude is three bytes long)
DataSpdu_to_bytes_short(spdu) ==
    <<SPDU_GIVE_TOKEN_DATA, 0, PGI_CONNECTION_IDENTIFIER>> \o spdu.data
\* DataSpdu::to_bytes
DataSpdu_to_bytes(spdu) ==
    <<SPDU_GIVE_TOKEN_DATA, 0, PGI_CONNECTION_IDENTIFIER, 0>> \o spdu.data

\* DataSpdu::from_bytes
DataSpdu_from_bytes(bytes) ==
    IF Len(bytes) < 4 THEN Err("MessageTooShort")
    ELSE IF bytes[2] = 0 /\ bytes[3] = PGI_CONNECTION_IDENTIFIER /\ bytes[4] = 0
      THEN Ok(DataSpdu_new(Slice(bytes, 4, Len(bytes))))
    ELSE Err("InvalidDataSpdu")

\* FinishSpdu::parse_parameters: the loop from `offset` on; the user data found
RECURSIVE FinishParametersFrom(_, _)
FinishParametersFrom(bytes, offset) ==
    IF ~(offset < Len(bytes)) THEN Ok(<<>>)
    ELSE IF offset + 1 >= Len(bytes) THEN Err("UnexpectedEndOfMessage")
    ELSE IF bytes[offset + 1] = PGI_USER_DATA THEN Ok(Slice(bytes, offset + 2, Len(bytes)))
    ELSE FinishParametersFrom(bytes, offset + 2 + bytes[offset + 2])

\* FinishSpdu::from_bytes
FinishSpdu_from_bytes(bytes) ==
    IF Len(bytes) < 2 THEN Err("panic")
    ELSE LET r == FinishParametersFrom(Slice(bytes, 2, Len(bytes)), 0)
         IN IF r.ok THEN Ok([data |-> r.value]) ELSE r

\* FinishSpdu::to_bytes
FinishSpdu_to_bytes(spdu) ==
    <<SPDU_FINISH, AsU8(2 + Len(spdu.data)), PGI_USER_DATA, AsU8(Len(spdu.data))>>
      \o spdu.data

\* DisconnectSpdu::from_bytes
DisconnectSpdu_from_bytes(bytes) ==
    LET f == FinishSpdu_from_bytes(bytes)
    IN IF f.ok THEN Ok([user_data |-> f.value.data]) ELSE f

\* DisconnectSpdu::to_bytes
DisconnectSpdu_to_bytes(spdu) ==
    <<SPDU_DISCONNECT, AsU8(2 + Len(spdu.user_data)), PGI_USER_DATA,
      AsU8(Len(spdu.user_data))>> \o spdu.user_data

\* AbortSpdu::from_bytes
AbortSpdu_from_bytes(bytes) ==
    IF Len(bytes) < 7 THEN Err("MessageTooShort")
    ELSE Ok([user_data |-> Slice(bytes, 7, Len(bytes))])

\* AbortSpdu::to_bytes
AbortSpdu_to_bytes(spdu) ==
    <<SPDU_ABORT, AsU8(5 + Len(spdu.user_data)), PGI_TRANSPORT_DISCONNECT, 1, 11,
      PGI_USER_DATA, AsU8(Len(spdu.user_data))>> \o spdu.user_data

\* RefuseSpdu::from_bytes
RefuseSpdu_from_bytes(bytes) ==
    IF Len(bytes) < 10 THEN Err("MessageTooShort")
    ELSE Ok([reason_code |-> bytes[10]])

\* RefuseSpdu::to_bytes
RefuseSpdu_to_bytes(spdu) ==
    <<SPDU_REFUSE, 8, PGI_CONNECTION_IDENTIFIER, 6, PGI_TRANSPORT_DISCONNECT, 1, 1,
      PI_REASON_CODE, 1, spdu.reason_code>>

\* a parsed Spdu: the variant and what it holds
SpduOf(type, r) == IF r.ok THEN Ok([type |-> type, spdu |-> r.value]) ELSE r

\* Spdu::from_bytes
Spdu_from_bytes(bytes) ==
    IF Len(bytes) < 2 THEN Err("NotEnoughBytes")
    ELSE LET length == bytes[2]
             type == SpduType_from(bytes[1])
             bad_length == length # Len(bytes) - 2
         IN CASE type = "Connect" ->
                   IF bad_length THEN Err("InvalidLength")
                   ELSE SpduOf("Connect", ConnectSpdu_from_bytes(bytes))
              [] type = "Accept" ->
                   IF bad_length THEN Err("InvalidLength")
                   ELSE SpduOf("Accept", AcceptSpdu_from_bytes(bytes))
              [] type = "GiveTokenData" -> SpduOf("Data", DataSpdu_from_bytes(bytes))
              [] type = "Finish" ->
                   IF bad_length THEN Err("InvalidLength")
                   ELSE SpduOf("Finish", FinishSpdu_from_bytes(bytes))
              [] type = "Disconnect" ->
                   IF bad_length THEN Err("InvalidLength")
                   ELSE SpduOf("Disconnect", DisconnectSpdu_from_bytes(bytes))
              [] type = "Abort" -> SpduOf("Abort", AbortSpdu_from_bytes(bytes))
              [] type = "Refuse" -> SpduOf("Refuse", RefuseSpdu_from_bytes(bytes))
              [] type = "NotFinished" -> Ok([type |-> "NotFinished", spdu |-> <<>>])
              [] OTHER -> Err("InvalidSpduType")

\* Session::connect from the result of receive_data on: the bytes handed to
\* the Presentation layer, or the error
Session_connect_reply(received) ==
    IF ~received.ok THEN Err("CotpLayer")
    ELSE LET response_spdu == Spdu_from_bytes(received.value)
         IN IF ~response_spdu.ok THEN response_spdu
            ELSE IF response_spdu.value.type = "Accept"
              THEN Ok(response_spdu.value.spdu.data)
            ELSE Err("InvalidCotpResponse")

\* SessionReadHalf::receive_data_internal from the result of receive_data on
Session_receive_data(received) ==
    IF ~received.ok THEN Err("CotpLayer")
    ELSE LET response_spdu == Spdu_from_bytes(received.value)
         IN IF ~response_spdu.ok THEN response_spdu
            ELSE IF response_spdu.value.type = "Data"
              THEN Ok(response_spdu.value.spdu.data)
            ELSE Err("InvalidCotpResponse")

\* ------------------------------------------- the session encoders and parsers
\* lengths of user data: up to and just beyond what one length byte holds
SduLens == {0, 1, 9, 2 ^ 8 - 1, 2 ^ 8, 2 ^ 8 + 9}
\* session selectors: none, the default pair of bytes, the longest allowed
SSelValues == {<<>>, <<0, 1>>, Payload(MAX_SESSION_SELECTOR_SIZE)}

\* byte strings a peer may send as CONNECT or ACCEPT SPDU: the parameters of
\* a well-formed one cut off after any number of bytes, and the same with the
\* Connect-Accept-Item cut off inside; the length byte of the SPDU (and of
\* the item) is that of what is left
AcceptItemValue == <<PI_PROTOCOL_OPTIONS, 1, 0, PI_VERSION_NUMBER, 1, SESSION_VERSION>>
AcceptParametersAfterItem ==
    <<PGI_SESSION_USER_REQUIREMENTS, 2>> \o U16ToLe(DUPLEX) \o <<PGI_USER_DATA, 2, 49, 0>>
AcceptParameters ==
    <<PGI_CONNECT_ACCEPT_ITEM, Len(AcceptItemValue)>> \o AcceptItemValue
      \o AcceptParametersAfterItem
CutParameters ==
    {Slice(AcceptParameters, 0, n) : n \in 0..Len(AcceptParameters)}
    \cup {<<PGI_CONNECT_ACCEPT_ITEM, n>> \o Slice(AcceptItemValue, 0, n)
             \o AcceptParametersAfterItem : n \in 0..Len(AcceptItemValue)}
CutSpdus ==
    {<<t, Len(p)>> \o p : t \in {SPDU_CONNECT, SPDU_ACCEPT}, p \in CutParameters}
    \cup {<<>>, <<SPDU_ACCEPT>>, <<SPDU_CONNECT>>}

SessionCodecInit ==
    /\ DispatcherAbsent
    /\ cotp_connection = Unused
    /\ assoc = Unused
    /\ UpperUnused
    /\ \/ \E n \in SduLens \cup {4} :
             codec = Codec("input", "data", DataSpdu_new(Payload(n)), <<>>, Ok(<<>>))
       \/ \E n \in SduLens \cup {4}, t \in {SPDU_GIVE_TOKEN_DATA, SPDU_ABORT} :
             codec = Codec("input", "data",
                           DataSpdu_new(<<t, 0, PGI_CONNECTION_IDENTIFIER, 0>> \o Payload(n)),
                           <<>>, Ok(<<>>))
       \/ \E calling \in SSelValues, called \in SSelValues, n \in SduLens :
             codec = Codec("input", "connect",
                           ConnectSpdu_new(SSelector_from_bytes(calling).value,
                                           SSelector_from_bytes(called).value,
                                           DUPLEX, Payload(n)),
                           <<>>, Ok(<<>>))
       \/ \E b \in CutSpdus : codec = Codec("encoded", "cut", <<>>, b, Ok(<<>>))

\* DataSpdu::new(data).to_bytes()
CodecDataToBytes ==
    /\ codec.pc = "input" /\ codec.kind = "data"
    /\ codec' = [codec EXCEPT !.pc = "encoded", !.bytes = DataSpdu_to_bytes(codec.input)]
    /\ UNCHANGED <<dispatcher_vars, cotp_connection, assoc, upper_vars>>

\* DataSpdu::from_bytes(&bytes)
CodecDataFromBytes ==
    /\ codec.pc = "encoded" /\ codec.kind = "data"
    /\ codec' = [codec EXCEPT !.pc = "decoded", !.output = DataSpdu_from_bytes(codec.bytes)]
    /\ UNCHANGED <<dispatcher_vars, cotp_connection, assoc, upper_vars>>

\* Spdu::from_bytes(&bytes)
CodecSpduFromBytes ==
    /\ codec.pc = "encoded" /\ codec.kind = "data"
    /\ codec' = [codec EXCEPT !.pc = "decoded_spdu", !.output = Spdu_from_bytes(codec.bytes)]
    /\ UNCHANGED <<dispatcher_vars, cotp_connection, assoc, upper_vars>>

\* Spdu::from_bytes(&bytes) on what is left of a CONNECT or ACCEPT SPDU
CodecCutSpduFromBytes ==
    /\ codec.pc = "encoded" /\ codec.kind = "cut"
    /\ codec' = [codec EXCEPT !.pc = "decoded", !.output = Spdu_from_bytes(codec.bytes)]
    /\ UNCHANGED <<dispatcher_vars, cotp_connection, assoc, upper_vars>>

\* ConnectSpdu::new(calling, called, requirement, data).to_bytes()
CodecConnectToBytes ==
    /\ codec.pc = "input" /\ codec.kind = "connect"
    /\ codec' = [codec EXCEPT !.pc = "encoded", !.bytes = ConnectSpdu_to_bytes(codec.input)]
    /\ UNCHANGED <<dispatcher_vars, cotp_connection, assoc, upper_vars>>

\* ConnectSpdu::from_bytes(&bytes)
CodecConnectFromBytes ==
    /\ codec.pc = "encoded" /\ codec.kind = "connect"
    /\ codec' = [codec EXCEPT !.pc = "decoded", !.output = ConnectSpdu_from_bytes(codec.bytes)]
    /\ UNCHANGED <<dispatcher_vars, cotp_connection, assoc, upper_vars>>

SessionCodecNext ==
    \/ CodecDataToBytes
    \/ CodecDataFromBytes
    \/ CodecSpduFromBytes
    \/ CodecCutSpduFromBytes
    \/ CodecConnectToBytes
    \/ CodecConnectFromBytes

SpecSessionCodec == SessionCodecInit /\ [][SessionCodecNext]_vars

\* ======================================================= MmsClient::connect
\* src/src/mms/client.rs, with Acse::new / Presentation::new / Session::new
\* and the connect methods of the three layers.
VERSION_NUMBER == 1
MIN_PDU_SIZE == 64
\* ClientConfig::default
DEFAULT_MAX_SERV_OUTSTANDING == 10
DEFAULT_NESTING_LEVEL == 10

\* config.connection.local_s_sel and remote_s_sel: the default pair, the
\* longest selector SSelector::from_bytes takes, and one byte more on either side
DefaultSSel == <<0, 1>>
SSelPairs ==
    {<<DefaultSSel, DefaultSSel>>,
     <<Payload(MAX_SESSION_SELECTOR_SIZE), DefaultSSel>>,
     <<Payload(MAX_SESSION_SELECTOR_SIZE + 1), DefaultSSel>>,
     <<DefaultSSel, Payload(MAX_SESSION_SELECTOR_SIZE + 1)>>}

\* config.connection: the proposed windows and nesting level, the session
\* selectors
Configs ==
    {[max_serv_outstanding_called |-> a, max_serv_outstanding_calling |-> b,
      data_structure_nesting_level |-> DEFAULT_NESTING_LEVEL,
      local_s_sel |-> sel[1], remote_s_sel |-> sel[2]] :
        a \in {1, DEFAULT_MAX_SERV_OUTSTANDING}, b \in {1, DEFAULT_MAX_SERV_OUTSTANDING},
        sel \in SSelPairs}
NoConfig ==
    [max_serv_outstanding_called |-> 0, max_serv_outstanding_calling |-> 0,
     data_structure_nesting_level |-> 0, local_s_sel |-> <<>>, remote_s_sel |-> <<>>]

\* Session::new after CotpConnection::connect: the two SSelector::from_bytes
SessionNewError(config) ==
    IF ~SSelector_from_bytes(config.local_s_sel).ok
      THEN SSelector_from_bytes(config.local_s_sel).error
    ELSE IF ~SSelector_from_bytes(config.remote_s_sel).ok
      THEN SSelector_from_bytes(config.remote_s_sel).error
    ELSE "none"

\* the one SDU the peer answers the CONNECT SPDU with: an SPDU of some type;
\* an ACCEPT or CONNECT carries a Connect-Accept-Item `item` and user data
SessionReply(type, item, data) == [type |-> type, item |-> item, data |-> data]
NoSessionReply == SessionReply("none", "none", <<>>)
\* the Connect-Accept-Item in its bytes: with version 2, with version 3, with
\* no version, or left out
ItemBytes(item) ==
    CASE item = "v2" -> encode_connect_accept_item(0)
      [] item = "v3" -> [encode_connect_accept_item(0) EXCEPT ![8] = SESSION_VERSION + 1]
      [] item = "no_version" -> <<PGI_CONNECT_ACCEPT_ITEM, 3, PI_PROTOCOL_OPTIONS, 1, 0>>
      [] OTHER -> <<>>
\* the parameters of an ACCEPT or CONNECT SPDU as the peer writes them
ReplyParameters(reply) ==
    ItemBytes(reply.item)
      \o <<PGI_SESSION_USER_REQUIREMENTS, 2>> \o U16ToLe(DUPLEX)
      \o <<PGI_USER_DATA, Len(reply.data)>> \o reply.data
ReplyBytes(reply) ==
    CASE reply.type = "Accept" ->
           <<SPDU_ACCEPT, Len(ReplyParameters(reply))>> \o ReplyParameters(reply)
      [] reply.type = "Connect" ->
           <<SPDU_CONNECT, Len(ReplyParameters(reply))>> \o ReplyParameters(reply)
      [] reply.type = "Data" -> DataSpdu_to_bytes(DataSpdu_new(reply.data))
      [] reply.type = "Finish" -> FinishSpdu_to_bytes([data |-> reply.data])
      [] reply.type = "Disconnect" -> DisconnectSpdu_to_bytes([user_data |-> reply.data])
      [] reply.type = "Abort" -> AbortSpdu_to_bytes([user_data |-> reply.data])
      [] reply.type = "Refuse" -> RefuseSpdu_to_bytes([reason_code |-> 0])
      [] reply.type = "NotFinished" -> <<SPDU_NOT_FINISHED, 0>>
      [] reply.type = "Invalid" -> <<255, 0>>
      [] OTHER -> <<>>
\* user data of the replies: a CPA or anything else, opaque to the session
ReplyData == {<<49, 0>>, <<49, 1, 5>>}
SessionReplies ==
    {SessionReply(t, i, d) :
        t \in {"Accept", "Connect"}, i \in {"v2", "v3", "no_version", "no_item"},
        d \in ReplyData}
    \cup {SessionReply(t, "none", <<49, 0>>) :
            t \in {"Data", "Finish", "Disconnect", "Abort", "Refuse", "NotFinished",
                   "Invalid", "Empty", "ReceiveError"}}
\* what cotp_connection.receive_data() returns to Session::connect
Received(reply) ==
    IF reply.type = "ReceiveError" THEN Err("ReceiveError") ELSE Ok(ReplyBytes(reply))

\* what ber::decode makes of the user data handed up by Presentation::connect:
\* an AARE with its result and user information, or an error
Aare(type, result, user_information) ==
    [type |-> type, result |-> result, user_information |-> user_information]
NoAare == Aare("none", 0, "none")
AareReplies ==
    {Aare("aare", r, u) :
        r \in {0, 1, 2},
        u \in {"none", "empty", "single_ASN1_type", "octet_aligned"}}
    \cup {Aare("decode_error", 0, "none")}

\* (faulty variant: the result of the AARE is not looked at)
AcseConnectErrorAnyResult(aare) ==
    IF aare.type = "decode_error" THEN "DecodeAare"
    ELSE IF aare.user_information \in {"none", "empty"} THEN "MissingUserInformation"
    ELSE IF aare.user_information # "single_ASN1_type" THEN "WrongUserInformationEncoding"
    ELSE "none"
\* Acse::connect from ber::decode of the AARE on: the error returned, or "none"
AcseConnectError(aare) ==
    IF aare.type = "decode_error" THEN "DecodeAare"
    ELSE IF aare.result # 0 THEN "AareResultNotSuccessful"
    ELSE IF aare.user_information \in {"none", "empty"} THEN "MissingUserInformation"
    ELSE IF aare.user_information # "single_ASN1_type" THEN "WrongUserInformationEncoding"
    ELSE "none"

\* what ber::decode makes of the user data of the AARE: an MMSpdu or an error
InitiateResponse(version, ldc, called, calling, nesting) ==
    [type |-> "initiate_ResponsePDU", negotiated_version_number |-> version,
     local_detail_called |-> ldc,
     negotiated_max_serv_outstanding_called |-> called,
     negotiated_max_serv_outstanding_calling |-> calling,
     negotiated_data_structure_nesting_level |-> nesting]
OtherReply(type) == [InitiateResponse(0, None, 0, 0, None) EXCEPT !.type = type]
NoReply == OtherReply("none")
Windows == {1, 2, DEFAULT_MAX_SERV_OUTSTANDING, DEFAULT_MAX_SERV_OUTSTANDING + 1}
InitiateReplies ==
    {InitiateResponse(v, l, a, b, n) :
        v \in {0, VERSION_NUMBER, 2},
        l \in {None, Some(MIN_PDU_SIZE - 1), Some(MIN_PDU_SIZE)},
        a \in Windows, b \in Windows,
        n \in {None, Some(DEFAULT_NESTING_LEVEL), Some(DEFAULT_NESTING_LEVEL + 1)}}
    \cup {OtherReply(t) : t \in {"initiate_ErrorPDU", "confirmed_ResponsePDU",
                                 "rejectPDU", "decode_error"}}

\* (faulty variant: the window of the called side is not compared)
InitiateErrorNoCalledCheck(config, response) ==
    IF response.type = "decode_error" THEN "DecodeResponse"
    ELSE IF response.type # "initiate_ResponsePDU" THEN "UnexpectedServiceResponse"
    ELSE IF response.negotiated_version_number # VERSION_NUMBER THEN "VersionMismatch"
    ELSE IF response.local_detail_called # None /\ response.local_detail_called[1] < MIN_PDU_SIZE
      THEN "MinPduSizeExceeded"
    ELSE IF response.negotiated_max_serv_outstanding_calling
              > config.max_serv_outstanding_calling
      THEN "MaxServOutstandingCallingExceeded"
    ELSE IF response.negotiated_data_structure_nesting_level # None
            /\ response.negotiated_data_structure_nesting_level[1]
                 > config.data_structure_nesting_level
      THEN "DataStructureNestingLevelExceeded"
    ELSE "none"
\* connect from ber::decode to the last check: the error returned, or "none"
InitiateError(config, response) ==
    IF response.type = "decode_error" THEN "DecodeResponse"
    ELSE IF response.type # "initiate_ResponsePDU" THEN "UnexpectedServiceResponse"
    ELSE IF response.negotiated_version_number # VERSION_NUMBER THEN "VersionMismatch"
    ELSE IF response.local_detail_called # None /\ response.local_detail_called[1] < MIN_PDU_SIZE
      THEN "MinPduSizeExceeded"
    ELSE IF response.negotiated_max_serv_outstanding_called
              > config.max_serv_outstanding_called
      THEN "MaxServOutstandingCalledExceeded"
    ELSE IF response.negotiated_max_serv_outstanding_calling
              > config.max_serv_outstanding_calling
      THEN "MaxServOutstandingCallingExceeded"
    ELSE IF response.negotiated_data_structure_nesting_level # None
            /\ response.negotiated_data_structure_nesting_level[1]
                 > config.data_structure_nesting_level
      THEN "DataStructureNestingLevelExceeded"
    ELSE "none"

\* the exchanges in the order in which connect completes them
Layers == <<"cotp", "session", "presentation", "acse", "mms">>
\* (faulty variant: an exchange is run again on the same connection)
LayerDoneAgain(assoc_pc, layer) == assoc_pc
\* position of connect once the exchange of `layer` has succeeded
LayerDone(assoc_pc, layer) == layer

\* connect under way: `io` lists what it has done on the network so far,
\* `s_reply` is the SDU that answered the CONNECT SPDU, `s_data` what
\* Session::connect returned for it, `aare` the AARE that Acse::connect decoded
Assoc(assoc_pc, config, layers, response, error) ==
    [pc |-> assoc_pc, config |-> config, layers |-> layers, response |-> response,
     error |-> error, io |-> <<>>, s_reply |-> NoSessionReply, s_data |-> Err("none"),
     aare |-> NoAare]

\* one step of connect: the exchange of `layer` ended with `error`, `seen` is
\* the association with what the step has read and written
AssocStep(seen, layer, response, error) ==
    /\ assoc' = IF error = "none"
                  THEN [seen EXCEPT !.pc = LayerDone(assoc.pc, layer),
                                    !.layers = Append(@, layer),
                                    !.response = response]
                  ELSE [seen EXCEPT !.pc = "failed", !.response = response,
                                    !.error = error]
    /\ UNCHANGED <<dispatcher_vars, cotp_connection, codec, upper_vars>>

ConnectInit ==
    /\ DispatcherAbsent
    /\ cotp_connection = Unused
    /\ codec = Unused
    /\ UpperUnused
    /\ \E config \in Configs : assoc = Assoc("start", config, <<>>, NoReply, "none")

\* Acse::new -> Presentation::new -> Session::new -> CotpConnection::connect:
\* make_connection, then the CR and the peer's answer `frames`; Session::new
\* then checks the configured session selectors
AssocCotpConnect(tcp_ok, frames) ==
    /\ assoc.pc = "start"
    /\ LET r == RequestConnectionResult(StreamBytes(frames))
       IN AssocStep([assoc EXCEPT !.io = IF tcp_ok THEN <<"tcp_open", "send_cr", "read_cc">>
                                                   ELSE <<>>],
                    "cotp", NoReply,
                    IF ~tcp_ok THEN "Whatever"
                    ELSE IF ~r.ok THEN r.error
                    ELSE SessionNewError(assoc.config))

\* Session::connect: the CONNECT SPDU carrying CP, AARQ and the Initiate
\* request goes out, one SDU comes back and has to be an ACCEPT
AssocSessionConnect(send_ok, reply) ==
    /\ assoc.pc = "cotp"
    /\ LET r == Session_connect_reply(Received(reply))
       IN AssocStep(IF send_ok
                      THEN [assoc EXCEPT !.io = @ \o <<"send_connect", "read_reply">>,
                                         !.s_reply = reply, !.s_data = r]
                      ELSE assoc,
                    "session", NoReply,
                    IF ~send_ok THEN "CotpLayer" ELSE r.error)

\* Presentation::connect from ber::decode of the CPA on
PresentationOutcomes ==
    {"Ok", "DecodeCpa", "MissingNormalModeParameters", "MissingUserData",
     "UnsupportedUserData", "MissingPdv", "InvalidContextId",
     "UnsupportedPresentationDataValues"}
AssocPresentationConnect(outcome) ==
    /\ assoc.pc = "session"
    /\ AssocStep(assoc, "presentation", NoReply, IF outcome = "Ok" THEN "none" ELSE outcome)

\* Acse::connect from ber::decode of the AARE on
AssocAcseConnect(aare) ==
    /\ assoc.pc = "presentation"
    /\ AssocStep([assoc EXCEPT !.aare = aare], "acse", NoReply, AcseConnectError(aare))

\* connect from ber::decode of the Initiate reply to the last of its checks
AssocInitiate(response) ==
    /\ assoc.pc = "acse"
    /\ AssocStep(assoc, "mms", response, InitiateError(assoc.config, response))

\* acse.split(), mpsc::channel, ConnectionHandler::new, tokio::spawn and
\* Ok(Self { tx }): the dispatcher starts and the MmsClient exists; connect
\* keeps neither the config nor the response
AssocSpawn ==
    /\ assoc.pc = "mms"
    /\ assoc' = Assoc("spawned", NoConfig, assoc.layers, NoReply, "none")
    /\ client_alive' = TRUE
    /\ pc' = "select"
    /\ UNCHANGED <<caller, got, queue, invoke_id, response_map, taken,
                   rx_reports, on_report, last, cotp_connection, codec, upper_vars>>

ConnectNext ==
    \/ \E tcp_ok \in BOOLEAN, frames \in ConnectReplies : AssocCotpConnect(tcp_ok, frames)
    \/ \E send_ok \in BOOLEAN, reply \in SessionReplies : AssocSessionConnect(send_ok, reply)
    \/ \E outcome \in PresentationOutcomes : AssocPresentationConnect(outcome)
    \/ \E aare \in AareReplies : AssocAcseConnect(aare)
    \/ \E response \in InitiateReplies : AssocInitiate(response)
    \/ AssocSpawn
    \/ NextFair

SpecConnect == ConnectInit /\ [][ConnectNext]_vars

\* ============================================================== presentation
\* src/src/mms/presentation.rs
BER_OID == <<2, 1, 1>>
MMS_CONTEXT_ID == 3

\* a PDV-list of fully-encoded-data as ber::decode returns it
PdvList(transfer_syntax_name, presentation_context_identifier, presentation_data_values) ==
    [transfer_syntax_name |-> transfer_syntax_name,
     presentation_context_identifier |-> presentation_context_identifier,
     presentation_data_values |-> presentation_data_values]
\* PDVListPresentationDataValues: the variant and its bytes
DataValues(type, data) == [type |-> type, data |-> data]
\* the PDV-lists a peer may send: transfer syntax left out, BER or another
\* one; the MMS context or an identifier that is no u64; a single-ASN1-type
\* value or an octet-aligned one
PdvLists ==
    {PdvList(t, c, DataValues(v, <<160, 0>>)) :
        t \in {None, Some(BER_OID), Some(<<2, 1, 2, 1>>)},
        c \in {MMS_CONTEXT_ID, -1},
        v \in {"single_ASN1_type", "octet_aligned"}}

\* the User-data that ber::decode makes of a session SDU, or its error
UserData(type, pdvs) == [type |-> type, pdvs |-> pdvs]
NoUserData == UserData("none", <<>>)
UserDataValues ==
    {UserData("fully_encoded_data", pdvs) : pdvs \in SeqsUpTo(PdvLists, MaxPdvs)}
    \cup {UserData("simply_encoded_data", <<>>), UserData("decode_error", <<>>)}

\* receive_data_internal on the PDV-list it popped: the error, or "none"
PdvError(pdv) ==
    IF pdv.transfer_syntax_name # None /\ pdv.transfer_syntax_name[1] # BER_OID
      THEN "UnsupportedTransferSyntax"
    ELSE IF pdv.presentation_context_identifier < 0 THEN "InvalidContextId"
    ELSE IF pdv.presentation_data_values.type # "single_ASN1_type"
      THEN "UnsupportedPresentationDataValues"
    ELSE "none"

\* PresentationReadHalf::receive_data_internal: `received` is what the session
\* returned, `user_data` what ber::decode makes of its bytes; Vec::pop takes
\* the last PDV-list
Presentation_receive_data(received, user_data) ==
    IF ~received.ok THEN Err("SessionLayer")
    ELSE IF user_data.type = "decode_error" THEN Err("DecodeData")
    ELSE IF user_data.type = "simply_encoded_data" THEN Err("UnsupportedUserData")
    ELSE IF user_data.pdvs = <<>> THEN Err("MissingPdv")
    ELSE LET pdv == user_data.pdvs[Len(user_data.pdvs)]
         IN IF PdvError(pdv) # "none" THEN Err(PdvError(pdv))
            ELSE Ok(<<pdv.presentation_data_values.data,
                      pdv.presentation_context_identifier>>)

\* SDUs arriving on an open session
Arrivals ==
    {SessionReply(t, "none", <<97, 0>>) : t \in {"Data", "Finish", "Abort", "ReceiveError"}}

PresentationInit ==
    /\ DispatcherAbsent
    /\ cotp_connection = Unused
    /\ codec = Unused
    /\ assoc = Unused
    /\ call = Unused
    /\ presentation = [pc |-> "open", arrival |-> NoSessionReply, user_data |-> NoUserData,
                       result |-> Err("none")]

\* one receive_data on the read half
PresentationReceiveData(arrival, user_data) ==
    /\ presentation.pc = "open"
    /\ LET received == Session_receive_data(Received(arrival))
           seen == IF received.ok THEN user_data ELSE NoUserData
       IN presentation' = [pc |-> "received", arrival |-> arrival, user_data |-> seen,
                           result |-> Presentation_receive_data(received, seen)]
    /\ UNCHANGED <<dispatcher_vars, cotp_connection, codec, assoc, call>>

PresentationNext ==
    \E arrival \in Arrivals, user_data \in UserDataValues :
        PresentationReceiveData(arrival, user_data)

SpecPresentation == PresentationInit /\ [][PresentationNext]_vars

\* ==================================================================== calls
\* One call of MmsClient::get_name_list, file_directory, file_read or read,
\* seen from the caller: the requests it hands to send_request and the
\* responses the dispatcher hands back.  The server is the environment.
Operations == {"get_name_list", "file_directory", "file_read", "read"}

\* Identifier(VisibleString) and DirectoryEntry { file_name, file_attributes }
Identifier(name) == [visible_string |-> name]
DirectoryEntry(file_name, size) == [file_name |-> file_name, file_attributes |-> size]
\* what the server holds: its names, its files, and the bytes of the open file
Identifiers == <<Identifier("LD0"), Identifier("LD1"), Identifier("LD2")>>
Entries == <<DirectoryEntry("a.icd", 1), DirectoryEntry("b.icd", 2), DirectoryEntry("c.icd", 3)>>
FileData == <<10, 20, 30>>
Listing(op) ==
    CASE op = "get_name_list" -> Identifiers
      [] op = "file_directory" -> Entries
      [] op = "file_read" -> FileData
      [] OTHER -> <<>>

\* ids.last().cloned() and
\* list_of_directory_entry.last().cloned().map(|entry| entry.file_name);
\* file_read keeps no continue_after
ContinueAfter(op, items) ==
    CASE op = "file_read" -> None
      [] items = <<>> -> None
      [] op = "file_directory" -> Some(items[Len(items)].file_name)
      [] OTHER -> Some(items[Len(items)])
\* what one page adds to the accumulated result: id.0.to_string() of every
\* identifier, the directory entries, the bytes of file_data
Extended(op, items) ==
    IF op = "get_name_list" THEN [i \in 1..Len(items) |-> items[i].visible_string]
    ELSE items

\* AccessResult::success(data) and AccessResult::failure(error)
AccessResult(type, value) == [type |-> type, value |-> value]
AccessResults ==
    {AccessResult("success", d) : d \in {7, 8}}
    \cup {AccessResult("failure", e) : e \in {3, 10}}
AccessResultLists == SeqsUpTo(AccessResults, MaxResults)
\* MmsClientError::DataAccess { error }
DataAccess(error) == [ok |-> FALSE, value |-> <<error>>, error |-> "DataAccess"]
\* .into_iter().map(..).collect::<Result<Vec<Data>, MmsClientError>>():
\* collecting stops at the first Err
RECURSIVE CollectFrom(_, _, _)
CollectFrom(results, i, values) ==
    IF i > Len(results) THEN Ok(values)
    ELSE IF results[i].type = "success"
         THEN CollectFrom(results, i + 1, Append(values, results[i].value))
         ELSE DataAccess(results[i].value)
\* (faulty variant: the access results are gone through from the last one)
ReadResultsBackwards(results) ==
    CollectFrom([i \in 1..Len(results) |-> results[Len(results) + 1 - i]], 1, <<>>)
\* what MmsClient::read makes of list_of_access_result
ReadResults(results) ==
    CollectFrom(results, 1, <<>>)

\* a response as send_request returns it: a page of the service asked for, a
\* Read response, a response of another service, or an error of send_request
Response(kind, more_follows, items) ==
    [kind |-> kind, more_follows |-> more_follows, items |-> items]
\* the page of at most k items that follows position `start` of the listing
Page(op, start, k) ==
    LET end == Min(start + k, Len(Listing(op)))
    IN Response("page", end < Len(Listing(op)), SubSeq(Listing(op), start + 1, end))
\* where the server is: behind the item named by continue_after, and for
\* file_read behind the bytes it has already returned for this frsm_id
PositionOf(c) ==
    CASE c.op = "file_read" -> c.position
      [] c.continue_after = None -> 0
      [] c.op = "file_directory" ->
           CHOOSE i \in 1..Len(Entries) : Entries[i].file_name = c.continue_after[1]
      [] OTHER ->
           CHOOSE i \in 1..Len(Identifiers) : Identifiers[i] = c.continue_after[1]
\* a server that honours continue_after, with pages of any size up to MaxPage
HonouringResponses(c) ==
    {Page(c.op, PositionOf(c), k) : k \in 0..MaxPage}
\* a server that ignores continue_after and starts from the beginning again
IgnoringResponses(c) ==
    IF c.op = "file_read" \/ PositionOf(c) = 0 THEN {}
    ELSE {Page(c.op, 0, k) : k \in 1..MaxPage}
\* responses of a service that was not asked for: a page of names for read, a
\* Read response for a paginated operation, or a response of yet another
\* service
MismatchedResponses(c) ==
    (IF c.op = "read" THEN {Page("get_name_list", 0, k) : k \in 1..MaxPage}
     ELSE {Response("read", FALSE, <<AccessResult("success", 7)>>)})
    \cup {Response("other", FALSE, <<>>)}
Responses(c) ==
    (IF c.op = "read" THEN {Response("read", FALSE, rs) : rs \in AccessResultLists}
     ELSE HonouringResponses(c) \cup IgnoringResponses(c))
    \cup MismatchedResponses(c) \cup {Response("error", FALSE, <<>>)}

\* (faulty variant: the service of the response is not looked at)
ServiceMatchesAny(op, response) ==
    response.kind # "other"
\* let ConfirmedServiceResponse::<service>(response) = response else { .. }
ServiceMatches(op, response) ==
    response.kind = (IF op = "read" THEN "read" ELSE "page")

\* (faulty variant: the loop goes on whatever the response says)
LoopAgainAlways(response) ==
    TRUE
\* more_follows = response.more_follows; while more_follows { .. }
LoopAgain(response) ==
    response.more_follows

\* file_specification of file_directory: absent, names that convert to
\* GraphicString, or a name that does not
FileSpecifications == {"none", "valid", "invalid"}

Call(call_pc, op, file_specification, continue_after, more_follows, list, position, requests, responses, honoured, result) ==
    [pc |-> call_pc, op |-> op, file_specification |-> file_specification,
     continue_after |-> continue_after, more_follows |-> more_follows, list |-> list,
     position |-> position, requests |-> requests, responses |-> responses,
     honoured |-> honoured, result |-> result]

CallInit ==
    /\ DispatcherAbsent
    /\ cotp_connection = Unused
    /\ codec = Unused
    /\ assoc = Unused
    /\ presentation = Unused
    /\ \E op \in Operations, file_specification \in FileSpecifications :
          /\ op # "file_directory" => file_specification = "none"
          /\ call = Call("request", op, file_specification, None, TRUE, <<>>, 0,
                         <<>>, <<>>, TRUE, Err("none"))

\* the head of the loop: the request is built and handed to send_request,
\* whose tx.send fails when the dispatcher is gone
CallSendRequest(sent) ==
    /\ call.pc = "request"
    /\ Len(call.requests) < MaxRequests
    /\ call' =
         IF call.op = "file_directory" /\ call.file_specification = "invalid"
         THEN [call EXCEPT !.pc = "returned", !.result = Err("VisibleStringConversion")]
         ELSE IF ~sent
         THEN [call EXCEPT !.pc = "returned", !.result = Err("SendRequest")]
         ELSE [call EXCEPT !.pc = "awaiting",
                           !.requests = Append(@, [continue_after |-> call.continue_after])]
    /\ UNCHANGED <<dispatcher_vars, cotp_connection, codec, assoc, presentation>>

\* rx.await returns and the rest of the loop body runs, up to the next head
\* of the loop or to the return
CallResponse(response) ==
    /\ call.pc = "awaiting"
    /\ LET seen == [call EXCEPT !.responses = Append(@, response),
                                !.honoured = @ /\ (ServiceMatches(call.op, response) =>
                                                     response \notin IgnoringResponses(call))]
           list == call.list \o Extended(call.op, response.items)
       IN call' =
            CASE response.kind = "error" ->
                   [seen EXCEPT !.pc = "returned", !.result = Err("ReceiveResponse")]
              [] ~ServiceMatches(call.op, response) ->
                   [seen EXCEPT !.pc = "returned", !.result = Err("UnexpectedServiceResponse")]
              [] response.kind = "read" ->
                   [seen EXCEPT !.pc = "returned", !.result = ReadResults(response.items)]
              [] OTHER ->
                   [seen EXCEPT !.pc = IF LoopAgain(response) THEN "request" ELSE "returned",
                                !.more_follows = response.more_follows,
                                !.continue_after = ContinueAfter(call.op, response.items),
                                !.list = list,
                                !.position = @ + Len(response.items),
                                !.result = IF LoopAgain(response) THEN @ ELSE Ok(list)]
    /\ UNCHANGED <<dispatcher_vars, cotp_connection, codec, assoc, presentation>>

CallNext ==
    \/ \E sent \in BOOLEAN : CallSendRequest(sent)
    \/ \E response \in Responses(call) : CallResponse(response)

SpecCall == CallInit /\ [][CallNext]_vars

\* ================================================================ read_file
\* Iec61850Client::read_file of src/src/iec61850.rs: file_open, file_read and
\* file_close of the MmsClient one after the other, each `.await?`.  `sent`
\* lists the requests passed to send_request, in order.
FrsmIds == {7, 8}
FileRequest(service, frsm_id) == [service |-> service, frsm_id |-> frsm_id]
\* what send_request returns for one request: the response of the service
\* asked for, a response of another service, or one of its two errors
FileOutcomes == {"ok", "other", "SendRequest", "ReceiveResponse"}
FileOutcomeError(outcome) ==
    IF outcome = "other" THEN "UnexpectedServiceResponse" ELSE outcome

ReadFile(file_pc, path, frsm_id, position, file, sent, result) ==
    [pc |-> file_pc, path |-> path, frsm_id |-> frsm_id, position |-> position,
     file |-> file, sent |-> sent, result |-> result]

ReadFileInit ==
    /\ DispatcherAbsent
    /\ cotp_connection = Unused
    /\ codec = Unused
    /\ assoc = Unused
    /\ presentation = Unused
    /\ \E path \in {"valid", "invalid"} :
          call = ReadFile("file_open", path, None, 0, <<>>, <<>>, Err("none"))

\* self.client.file_open(vec![path.to_owned()], None).await?.frsm_id.0
ReadFileOpen(outcome, frsm_id) ==
    /\ call.pc = "file_open"
    /\ call' =
         IF call.path = "invalid"
         THEN [call EXCEPT !.pc = "returned", !.result = Err("VisibleStringConversion")]
         ELSE IF outcome = "ok"
         THEN [call EXCEPT !.pc = "file_read", !.frsm_id = Some(frsm_id),
                           !.sent = Append(@, FileRequest("fileOpen", None))]
         ELSE [call EXCEPT !.pc = "returned", !.result = Err(FileOutcomeError(outcome)),
                           !.sent = Append(@, FileRequest("fileOpen", None))]
    /\ UNCHANGED <<dispatcher_vars, cotp_connection, codec, assoc, presentation>>

\* one round of the loop of MmsClient::file_read; after the last one read_file
\* goes on to file_close
ReadFileRead(outcome, k) ==
    /\ call.pc = "file_read"
    /\ Len(call.sent) < MaxRequests + 1
    /\ LET request == FileRequest("fileRead", call.frsm_id)
           response == Page("file_read", call.position, k)
       IN call' =
            IF outcome = "ok"
            THEN [call EXCEPT !.pc = IF LoopAgain(response) THEN "file_read" ELSE "file_close",
                              !.position = @ + Len(response.items),
                              !.file = @ \o response.items,
                              !.sent = Append(@, request)]
            ELSE [call EXCEPT !.pc = "returned",
                              !.result = Err(FileOutcomeError(outcome)),
                              !.sent = Append(@, request)]
    /\ UNCHANGED <<dispatcher_vars, cotp_connection, codec, assoc, presentation>>

\* self.client.file_close(file_id).await?; Ok(file)
ReadFileClose(outcome) ==
    /\ call.pc = "file_close"
    /\ call' = [call EXCEPT !.pc = "returned",
                            !.result = IF outcome = "ok" THEN Ok(call.file)
                                       ELSE Err(FileOutcomeError(outcome)),
                            !.sent = Append(@, FileRequest("fileClose", call.frsm_id))]
    /\ UNCHANGED <<dispatcher_vars, cotp_connection, codec, assoc, presentation>>

ReadFileNext ==
    \/ \E outcome \in FileOutcomes, frsm_id \in FrsmIds : ReadFileOpen(outcome, frsm_id)
    \/ \E outcome \in FileOutcomes, k \in 0..MaxPage : ReadFileRead(outcome, k)
    \/ \E outcome \in FileOutcomes : ReadFileClose(outcome)

SpecReadFile == ReadFileInit /\ [][ReadFileNext]_vars

\* ------------------------------ handle_connection: select! over the read half
\* What the server sends while the dispatcher runs: SDUs, each cut into DT
\* TPDUs of at most `dt` data bytes and framed as this crate frames its own.
SduValues == {<<9>>, <<7, 14>>}
ServerSdus == SeqsUpTo(SduValues, MaxSdus) \ {<<>>}
ServerDtSizes == {1, 2}
RECURSIVE ServerBytes(_, _)
ServerBytes(sdus, dt) ==
    IF sdus = <<>> THEN <<>>
    ELSE send_data(COTP_DT_HEADER_SIZE + dt, Head(sdus)) \o ServerBytes(Tail(sdus), dt)

\* The state of one receive_data() future: the read_exact it is suspended in
\* (`phase`), the bytes that read_exact has already taken off the socket
\* (`buffer`), the header read_tpkt got before (`header`) and the local `data`
\* of receive_data.
ReceiveFuture(phase, header, buffer, data) ==
    [phase |-> phase, header |-> header, buffer |-> buffer, data |-> data]
\* self.read_half.receive_data() as select! creates it in every iteration
NewReceiveFuture == ReceiveFuture("header", <<>>, <<>>, <<>>)

Polled(state, future, socket, value, error) ==
    [state |-> state, future |-> future, socket |-> socket, value |-> value,
     error |-> error]

\* One poll of the receive_data() future: it runs until a read_exact finds the
\* socket empty (Pending), an SDU is complete (Ready(Ok)) or read_tpkt fails.
RECURSIVE PollReceiveData(_, _)
PollReceiveData(future, socket) ==
    IF future.phase = "header" THEN
      LET n == Min(Len(socket), TPKT_HEADER_SIZE - Len(future.buffer))
          buffer == future.buffer \o SubSeq(socket, 1, n)
          rest == SubSeq(socket, n + 1, Len(socket))
          h == read_tpkt(buffer)
      IN IF Len(buffer) < TPKT_HEADER_SIZE
           THEN Polled("pending", [future EXCEPT !.buffer = buffer], rest, <<>>, "none")
         ELSE IF h.error \in {"InvalidTpktVersion", "panic"}
           THEN Polled("error", future, rest, <<>>, h.error)
         ELSE PollReceiveData(ReceiveFuture("body", buffer, <<>>, future.data), rest)
    ELSE
      LET length == U16FromBe(Slice(future.header, 2, TPKT_HEADER_SIZE))
          n == Min(Len(socket), length - TPKT_HEADER_SIZE - Len(future.buffer))
          buffer == future.buffer \o SubSeq(socket, 1, n)
          rest == SubSeq(socket, n + 1, Len(socket))
          r == read_tpkt(future.header \o buffer)
      IN IF Len(buffer) < length - TPKT_HEADER_SIZE
           THEN Polled("pending", [future EXCEPT !.buffer = buffer], rest, <<>>, "none")
         ELSE IF ~r.ok THEN Polled("error", future, rest, <<>>, r.error)
         ELSE IF r.value.cotp.type # "Dt"
           THEN Polled("error", future, rest, <<>>, "WrongCotpType")
         ELSE IF r.value.cotp.eot = "Eot"
           THEN Polled("ready", NewReceiveFuture, rest,
                       future.data \o r.value.cotp.data, "none")
         ELSE PollReceiveData(ReceiveFuture("header", <<>>, <<>>,
                                            future.data \o r.value.cotp.data), rest)

\* what is left of the receive_data() future when the other branch of select!
\* completes: the future is dropped, and the next iteration makes a new one
Dropped(future) == NewReceiveFuture

\* `sdus` is what the server sends in all, `wire` the bytes of it still on
\* their way, `socket` the bytes the kernel holds unread, `decoded` the SDUs
\* receive_data has returned, `queued` the requests waiting in rx and `sent`
\* the requests written.
SelectInit ==
    /\ DispatcherAbsent
    /\ codec = Unused
    /\ assoc = Unused
    /\ UpperUnused
    /\ \E sdus \in ServerSdus, dt \in ServerDtSizes :
         cotp_connection = [pc |-> "select", sdus |-> sdus, wire |-> ServerBytes(sdus, dt),
                            socket |-> <<>>, future |-> NewReceiveFuture,
                            decoded |-> <<>>, error |-> "none", queued |-> 0,
                            sent |-> 0]

\* n more bytes of the server reach the socket
SelectArrive(n) ==
    /\ cotp_connection.pc = "select"
    /\ n <= Len(cotp_connection.wire)
    /\ cotp_connection' =
         [cotp_connection EXCEPT
            !.socket = @ \o SubSeq(cotp_connection.wire, 1, n),
            !.wire = SubSeq(@, n + 1, Len(@))]
    /\ UNCHANGED <<dispatcher_vars, codec, assoc, upper_vars>>

\* a Client handle puts a request into the channel
SelectSubmit ==
    /\ cotp_connection.pc = "select"
    /\ cotp_connection.queued + cotp_connection.sent < MaxSubmits
    /\ cotp_connection' = [cotp_connection EXCEPT !.queued = @ + 1]
    /\ UNCHANGED <<dispatcher_vars, codec, assoc, upper_vars>>

\* select! polls the branch `data = self.read_half.receive_data()`; when it is
\* ready the arm runs and the loop goes round
SelectReceiveData ==
    /\ cotp_connection.pc = "select"
    /\ cotp_connection.socket # <<>>
    /\ LET p == PollReceiveData(cotp_connection.future, cotp_connection.socket)
       IN cotp_connection' =
            [cotp_connection EXCEPT
               !.pc = IF p.state = "error" THEN "exited" ELSE @,
               !.socket = p.socket,
               !.future = p.future,
               !.decoded = IF p.state = "ready" THEN Append(@, p.value) ELSE @,
               !.error = p.error]
    /\ UNCHANGED <<dispatcher_vars, codec, assoc, upper_vars>>

\* select! finds `request = self.rx.recv()` ready: the arm sends the request
\* and the loop goes round
SelectRecvRequest ==
    /\ cotp_connection.pc = "select"
    /\ cotp_connection.queued > 0
    /\ cotp_connection' =
         [cotp_connection EXCEPT
            !.queued = @ - 1,
            !.sent = @ + 1,
            !.future = Dropped(@)]
    /\ UNCHANGED <<dispatcher_vars, codec, assoc, upper_vars>>

SelectNext ==
    \/ \E n \in 1..MaxArrive : SelectArrive(n)
    \/ SelectSubmit
    \/ SelectReceiveData
    \/ SelectRecvRequest

SpecSelect == SelectInit /\ [][SelectNext]_vars

\* ================================================================== claims
\* C1: a caller's future completes with a response only if that response
\* carries the invoke id the dispatcher put on that caller's request; no
\* response completes another caller's waiter.
C1_DispatcherCorrelation ==
    \A r \in Requests :
        /\ caller[r] = "ok" <=> got[r] # NoPdu
        /\ caller[r] = "ok" =>
              /\ got[r].type = "confirmed_Response"
              /\ \E i \in 1..Len(taken) :
                    /\ taken[i].req = r
                    /\ taken[i].sent
                    /\ taken[i].invoke_id = got[r].invoke_id

\* two requests outstanding together, answered in the reverse order
C1_Witness ==
    /\ caller[1] = "ok" /\ got[1].invoke_id = 0
    /\ caller[2] = "ok" /\ got[2].invoke_id = 1
    /\ last.op = "recv" /\ last.pdu.type = "confirmed_Response" /\ last.req = 1

C3_WindowRespected == Cardinality(DOMAIN response_map) <= NegotiatedCalling

\* C4: Confirmed-Requests go out in the order in which their requests were
\* enqueued (requests are numbered in enqueue order), and the dispatcher
\* takes them from the queue in that order.
C4_FifoWireOrder ==
    /\ \A i \in 1..Len(taken) : taken[i].req = i
    /\ \A i, j \in 1..Len(Wire) : i < j => Wire[i].req < Wire[j].req
    /\ \A i, j \in 1..Len(queue) : i < j => queue[i] < queue[j]

\* two requests sent with a report and the first response handled in between
C4_Witness ==
    /\ Len(Wire) = 2
    /\ Len(on_report) = 1
    /\ caller[1] = "ok"
    /\ 1 \in DOMAIN response_map

ConfirmedTypes == {"confirmed_Response", "confirmed_Error", "reject"}
Completed(id) == \E r \in Requests : got[r] # NoPdu /\ got[r].invoke_id = id

\* C5: a completed waiter is never completed again, and a response, error
\* or reject carrying an invoke id whose response was already delivered
\* changes no waiter and no map entry.
C5_CompletedAtMostOnce ==
    [][ /\ \A r \in Requests :
              caller[r] \in {"ok", "recv_err"} => caller'[r] = caller[r] /\ got'[r] = got[r]
        /\ (/\ last'.op = "recv"
            /\ last'.pdu.type \in ConfirmedTypes
            /\ Completed(last'.pdu.invoke_id))
           => UNCHANGED <<response_map, caller, got>> ]_vars

\* a second response for an id already answered, another request outstanding
C5_Witness ==
    /\ last.op = "recv"
    /\ last.pdu.type = "confirmed_Response"
    /\ last.req = NoRequest
    /\ Completed(last.pdu.invoke_id)
    /\ \E k \in DOMAIN response_map : caller[response_map[k]] = "waiting"

\* C6: on_report is called exactly once for every received unconfirmed PDU
\* that decodes into a Report, in arrival order, and handling an
\* unconfirmed PDU changes no waiter and no map entry.
C6_ReportsInOrderExactlyOnce ==
    /\ [](on_report = SelectSeq(rx_reports, ReportTryFrom))
    /\ [][rx_reports' # rx_reports => UNCHANGED <<response_map, caller, got>>]_vars

\* scenario S6: Read_A (id 0) and Read_B (id 1) sent, one Report, then
\* Response(1), then Response(0)
C6_Witness ==
    /\ Len(Wire) = 2
    /\ Len(rx_reports) = 1 /\ Len(on_report) = 1
    /\ caller[2] = "ok" /\ got[2].invoke_id = 1
    /\ caller[1] = "ok" /\ got[1].invoke_id = 0
    /\ last.op = "recv" /\ last.req = 1

\* C7: a Confirmed-Error, or a Reject with an original invoke id, that names
\* an outstanding request removes exactly that entry and sends no value; the
\* request's caller gets the channel-closed error; nothing else changes.
C7_ErrorClosesOnlyItsWaiter ==
    [][ (/\ last'.op = "recv"
         /\ last'.pdu.type \in {"confirmed_Error", "reject"}
         /\ last'.pdu.invoke_id \in DOMAIN response_map)
        => LET id == last'.pdu.invoke_id
               r == response_map[id]
           IN /\ DOMAIN response_map' = DOMAIN response_map \ {id}
              /\ \A k \in DOMAIN response_map' : response_map'[k] = response_map[k]
              /\ got' = got
              /\ caller[r] = "waiting" => caller'[r] = "recv_err"
              /\ \A q \in Requests \ {r} : caller'[q] = caller[q] ]_vars

\* a Reject naming request 1 while request 2 stays outstanding
C7_Witness ==
    /\ last.op = "recv" /\ last.pdu.type = "reject" /\ last.req = 1
    /\ caller[1] = "recv_err"
    /\ \E k \in DOMAIN response_map : response_map[k] = 2 /\ caller[2] = "waiting"

\* C8: when receive_data returns an error the loop terminates, the map is
\* gone and every caller that was waiting on a map entry has the
\* channel-closed error; no call is left pending.
C8_ReceiveErrorClosesAllWaiters ==
    [][ last'.op = "recv_err"
        => /\ pc' = "done"
           /\ response_map' = EmptyMap
           /\ \A r \in Range(response_map) : caller[r] = "waiting" => caller'[r] = "recv_err"
           /\ \A r \in Requests : caller'[r] # "waiting" ]_vars

\* the receive error strikes with two requests outstanding
C8_Witness ==
    /\ last.op = "recv_err"
    /\ pc = "done"
    /\ Len(Wire) = 2
    /\ caller[1] = "recv_err" /\ caller[2] = "recv_err"

\* C9: when prepare_request or send_data fails for a dequeued request, its
\* caller gets the channel-closed error, the map and the counter stay as
\* they are, no other waiter changes and the dispatcher stays in its loop.
C9_SendFailureDropsOnlyThatRequest ==
    [][ (/\ Len(taken') = Len(taken) + 1
         /\ ~taken'[Len(taken')].sent)
        => LET r == taken'[Len(taken')].req
           IN /\ caller[r] = "waiting" => caller'[r] = "recv_err"
              /\ \A q \in Requests \ {r} : caller'[q] = caller[q]
              /\ UNCHANGED <<response_map, invoke_id, got>>
              /\ pc' = "select" ]_vars

\* request 2 failed to go out; request 1 is still outstanding, request 3 was
\* sent afterwards and answered
C9_Witness ==
    /\ Len(taken) = 3
    /\ taken[1].sent /\ ~taken[2].sent /\ taken[3].sent
    /\ caller[1] = "waiting" /\ 0 \in DOMAIN response_map
    /\ caller[2] = "recv_err"
    /\ caller[3] = "ok" /\ got[3].invoke_id = 1

\* C10: while the dispatcher runs, the map entry of a request whose future
\* was dropped stays until a response, error or reject with its invoke id is
\* handled; that PDU removes the entry, reaches no waiter and leaves the
\* dispatcher in its loop; the invoke id goes out with no other request.
C10_CancelledEntryStaysUntilAnswered ==
    /\ [][ \A id \in DOMAIN response_map :
              (caller[response_map[id]] = "cancelled" /\ pc' # "done")
              => \/ (id \in DOMAIN response_map' /\ response_map'[id] = response_map[id])
                 \/ /\ last'.op = "recv"
                    /\ last'.pdu.type \in ConfirmedTypes
                    /\ last'.pdu.invoke_id = id
                    /\ id \notin DOMAIN response_map'
                    /\ caller' = caller
                    /\ got' = got
                    /\ pc' = "select" ]_vars
    /\ [](\A i, j \in 1..Len(Wire) :
              (i # j /\ caller[Wire[i].req] = "cancelled")
              => Wire[j].invoke_id # Wire[i].invoke_id)

\* the response for a dropped future arrives late, another caller is
\* waiting and a further request goes out afterwards under a new id
C10_Witness ==
    /\ caller[1] = "cancelled" /\ got[1] = NoPdu
    /\ Len(Wire) = 3 /\ Wire[1].req = 1
    /\ 0 \notin DOMAIN response_map
    /\ caller[2] = "waiting"
    /\ caller[3] = "waiting" /\ 2 \in DOMAIN response_map

\* C11: once the owner has dropped the MmsClient and the request queue is
\* drained, the dispatcher loop eventually exits.
C11_DroppedAndDrainedExits ==
    (~client_alive /\ queue = <<>>) ~> (pc = "done")

\* the loop was left through the None arm of rx.recv()
C11_Witness ==
    /\ ~client_alive
    /\ pc = "done"
    /\ last.op = "recv_none"
    /\ taken # <<>>

\* the conditions on the reply to the Initiate request, as the claim lists them
AcceptableInitiate(config, response) ==
    /\ response.type = "initiate_ResponsePDU"
    /\ response.negotiated_version_number = 1
    /\ (response.local_detail_called = None \/ response.local_detail_called[1] >= 64)
    /\ response.negotiated_max_serv_outstanding_called <= config.max_serv_outstanding_called
    /\ response.negotiated_max_serv_outstanding_calling <= config.max_serv_outstanding_calling
    /\ (response.negotiated_data_structure_nesting_level = None
        \/ response.negotiated_data_structure_nesting_level[1]
             <= config.data_structure_nesting_level)

\* C12: connect gets past the Initiate exchange only with an Initiate-Response
\* of version 1 whose local_detail_called is absent or at least 64, whose two
\* windows are not above the proposed ones and whose nesting level is absent
\* or not above the proposed one; with any other reply it returns an error.
C12_ConnectOnlyOnAcceptableInitiate ==
    /\ assoc.pc = "mms" => AcceptableInitiate(assoc.config, assoc.response)
    /\ (assoc.response # NoReply /\ ~AcceptableInitiate(assoc.config, assoc.response))
         => (assoc.pc = "failed" /\ assoc.error # "none")

\* a called window of proposed + 1 was rejected
C12_Witness ==
    /\ assoc.pc = "failed"
    /\ assoc.error = "MaxServOutstandingCalledExceeded"
    /\ assoc.response.negotiated_max_serv_outstanding_called
         = assoc.config.max_serv_outstanding_called + 1
    /\ assoc.response.local_detail_called = Some(64)

\* C13: the exchanges of an association complete in the order COTP, Session,
\* Presentation, ACSE, MMS Initiate, each at most once; the dispatcher exists
\* only after all five succeeded; a failed connect stays failed, starts no
\* dispatcher and sends no confirmed request.
C13_AssociationBuiltInOrder ==
    /\ [](/\ Len(assoc.layers) <= Len(Layers)
          /\ \A i \in 1..Len(assoc.layers) : assoc.layers[i] = Layers[i])
    /\ [](pc # "absent" => assoc.layers = Layers)
    /\ [](assoc.pc = "failed" =>
            /\ assoc.error # "none"
            /\ pc = "absent" /\ ~client_alive
            /\ queue = <<>> /\ taken = <<>>)
    /\ [][assoc.pc = "failed" => assoc'.pc = "failed"]_vars
    /\ [][pc = "absent" /\ pc' # "absent" => assoc.pc = "mms" /\ assoc.layers = Layers]_vars

\* the dispatcher of a completed association has put a request on the wire
C13_Witness ==
    /\ assoc.pc = "spawned"
    /\ assoc.layers = Layers
    /\ Len(Wire) > 0

\* C14: the DT TPDUs that send_data emits for a payload, read back by
\* receive_data, yield that payload, and exactly one of them carries the end
\* marker, the last one; this for every payload from 0 bytes upward.
C14_SegmentationRoundTrip ==
    cotp_connection.result.op = "send_data" =>
        LET res == cotp_connection.result
            back == receive_data(res.buffer)
        IN /\ back.ok
           /\ back.value = res.data
           /\ {i \in 1..Len(res.dts) : res.dts[i].cotp.eot = "Eot"} = {Len(res.dts)}

\* the TPDU size agreed with the peer: two to the value of the TPDU-size option
\* of the CC when the CC carries one, otherwise 8192
AgreedTpduSize(cc_options) ==
    LET sizes == {i \in 1..Len(cc_options) : cc_options[i].kind = "TpduSize"}
    IN IF sizes = {} THEN 8192
       ELSE 2 ^ cc_options[CHOOSE i \in sizes : TRUE].value

\* C15: no DT TPDU that send_data emits carries more user bytes than the TPDU
\* size agreed with the peer minus 3.
C15_DtWithinAgreedTpduSize ==
    cotp_connection.result.op = "send_data" =>
        \A i \in 1..Len(cotp_connection.result.dts) :
            Len(cotp_connection.result.dts[i].cotp.data)
              <= AgreedTpduSize(cotp_connection.cc[1].tpdu.options) - 3

\* C16: with both t-selectors {0x00, 0x01} the CR goes out as
\* 03 00 00 16 | 11 E0 00 00 00 01 00 | C0 01 0D | C2 02 00 01 | C1 02 00 01.
C16_CrBytes ==
    (/\ cotp_connection.pc # "new"
     /\ cotp_connection.local_t_sel = <<0, 1>>
     /\ cotp_connection.remote_t_sel = <<0, 1>>)
    => cotp_connection.cr = <<3, 0, 0, 22, 17, 224, 0, 0, 0, 1, 0, 192, 1, 13,
                              194, 2, 0, 1, 193, 2, 0, 1>>

\* C17: the COTP connection is open only if the peer answered the CR with a
\* CC whose dst_ref is the src_ref sent (1); after any other answer the
\* connection has failed and nothing but the CR was ever written on it.
C17_ConnectOnlyOnMatchingCc ==
    LET c == cotp_connection
        matching == /\ c.cc # <<>>
                    /\ c.cc[1].tpdu.type = "Cc"
                    /\ c.cc[1].tpdu.dst_ref = 1
    IN /\ c.pc = "open" => matching
       /\ (c.pc \in {"open", "failed"} /\ ~matching) => c.pc = "failed"
       /\ c.pc = "failed" => (c.writes = 1 /\ ~c.result.ok)

\* a well-framed CC that echoes another reference was refused
C17_Witness ==
    /\ cotp_connection.pc = "failed"
    /\ cotp_connection.cc # <<>>
    /\ WellFramed(cotp_connection.cc[1])
    /\ cotp_connection.cc[1].tpdu.type = "Cc"
    /\ cotp_connection.cc[1].tpdu.dst_ref = 2
    /\ cotp_connection.result.error = "ConnectionFailed"

\* a frame that receive_data must not accept
Offending(f) == f.version # 3 \/ f.reserved # 0 \/ f.tpdu.type # "Dt"
\* the frames of a stream up to and including the first one that ends an SDU
EndsSdu(f) == ~Offending(f) /\ f.tpdu.eot = "Eot"
ReadFrames(frames) ==
    {i \in 1..Len(frames) : \A j \in 1..(i - 1) : ~EndsSdu(frames[j])}

\* C18: when a frame with a version other than 3, a non-zero reserved byte or
\* a TPDU that is not a DT arrives before the end of the SDU, receive_data
\* returns an error, hands up nothing of what it had collected and does not
\* go on to the frames behind it.
C18_ReceiveErrorNoPartialPayload ==
    cotp_connection.result.op = "receive_data" =>
        LET res == cotp_connection.result
        IN (\E i \in ReadFrames(res.frames) : Offending(res.frames[i]))
             => (/\ ~res.ok
                 /\ res.error \in {"InvalidTpktVersion", "WrongCotpType"}
                 /\ res.data = <<>>)

\* a DT without end marker, then a frame of version 2, then a complete SDU
C18_Witness ==
    LET res == cotp_connection.result
    IN /\ res.op = "receive_data"
       /\ Len(res.frames) = 3
       /\ EndsSdu(res.frames[3])
       /\ res.frames[2].version = 2
       /\ ~Offending(res.frames[1]) /\ res.frames[1].tpdu.eot = "NoEot"
       /\ res.error = "InvalidTpktVersion"

\* C19: the TPKT encoding of a TPDU of at most 65531 bytes starts with 03 00
\* and the big-endian 16-bit value of the TPDU length plus 4, is that many
\* bytes long, and read back gives the same TPDU.
C19_TpktRoundTrip ==
    (codec.pc = "decoded" /\ codec.kind = "tpkt") =>
        LET n == Len(Cotp_to_bytes(codec.input))
        IN n <= 65531 =>
             /\ SubSeq(codec.bytes, 1, 4) = <<3, 0, (n + 4) \div 256, (n + 4) % 256>>
             /\ Len(codec.bytes) = n + 4
             /\ codec.output.ok
             /\ codec.output.value.cotp = codec.input
             /\ codec.output.rest = <<>>

\* a DT TPDU of exactly 65531 bytes went through
C19_Witness ==
    /\ codec.pc = "decoded" /\ codec.kind = "tpkt"
    /\ codec.input.type = "Dt"
    /\ Len(codec.input.data) = 65528
    /\ SubSeq(codec.bytes, 1, 4) = <<3, 0, 255, 255>>
    /\ codec.output.ok

\* C20: bytes_to_options(options_to_bytes(L)) gives back the options of L with
\* their values in their order, for every list of TPDU-size, source t-selector
\* and destination t-selector options.
C20_OptionsRoundTrip ==
    (codec.pc = "decoded" /\ codec.kind = "options") =>
        /\ codec.output.ok
        /\ Len(codec.output.value) = Len(codec.input)
        /\ \A i \in 1..Len(codec.input) :
              /\ codec.output.value[i].kind = codec.input[i].kind
              /\ codec.output.value[i].value = codec.input[i].value

\* a list with one option of each kind, the selectors holding a byte that is
\* also an option tag
C20_Witness ==
    /\ codec.pc = "decoded" /\ codec.kind = "options"
    /\ Len(codec.input) = 3
    /\ codec.input[1].kind = "TpduSize"
    /\ codec.input[2].kind = "TSelDst" /\ codec.input[2].value = <<194, 1>>
    /\ codec.input[3].kind = "TSelSrc" /\ codec.input[3].value = <<1>>
    /\ codec.output.ok

\* C21: the DATA SPDU of any byte string b is 01 00 01 00 followed by b, and
\* both DataSpdu::from_bytes and Spdu::from_bytes give b back from it.
C21_DataSpduRoundTrip ==
    (codec.kind = "data" /\ codec.pc \in {"encoded", "decoded", "decoded_spdu"}) =>
        /\ codec.bytes = <<1, 0, 1, 0>> \o codec.input.data
        /\ codec.pc = "decoded" =>
              codec.output.ok /\ codec.output.value.data = codec.input.data
        /\ codec.pc = "decoded_spdu" =>
              /\ codec.output.ok
              /\ codec.output.value.type = "Data"
              /\ codec.output.value.spdu.data = codec.input.data

\* a byte string that itself starts like an ABORT SPDU came back through
\* Spdu::from_bytes
C21_Witness ==
    /\ codec.kind = "data" /\ codec.pc = "decoded_spdu"
    /\ codec.output.ok
    /\ codec.output.value.spdu.data = <<25, 0, 1, 0, 7>>

\* C22: ConnectSpdu::from_bytes gives back the calling selector, the called
\* selector, the Duplex requirement and the user data of every CONNECT SPDU
\* built from selectors of at most 16 bytes and any user data.
C22_ConnectSpduRoundTrip ==
    (codec.kind = "connect" /\ codec.pc = "decoded") =>
        /\ codec.output.ok
        /\ codec.output.value.calling_session_selector = codec.input.calling_session_selector
        /\ codec.output.value.called_session_selector = codec.input.called_session_selector
        /\ codec.output.value.session_requirement = DUPLEX
        /\ codec.output.value.data = codec.input.data

\* C23: Session::connect hands user data to the Presentation layer only when
\* the SDU that answered the CONNECT SPDU is an ACCEPT SPDU with a
\* Connect-Accept-Item of version 2, and then it is the user data of that
\* ACCEPT; after any other SPDU, or an ACCEPT whose item has another version
\* or none, connect has failed with an error and the session exchange is not
\* among the completed ones.
C23_SessionConnectOnlyOnAcceptV2 ==
    assoc.s_reply # NoSessionReply =>
        /\ assoc.s_data.ok =>
              /\ assoc.s_reply.type = "Accept"
              /\ assoc.s_reply.item = "v2"
              /\ assoc.s_data.value = assoc.s_reply.data
        /\ (assoc.s_reply.type # "Accept" \/ assoc.s_reply.item # "v2") =>
              /\ ~assoc.s_data.ok
              /\ assoc.pc = "failed"
              /\ assoc.error # "none"
        /\ ("session" \in Range(assoc.layers)) <=> assoc.s_data.ok

\* an ACCEPT SPDU with version 3 in its Connect-Accept-Item was turned down
C23_Witness ==
    /\ assoc.s_reply = SessionReply("Accept", "v3", <<49, 1, 5>>)
    /\ assoc.pc = "failed"
    /\ assoc.error = "InvalidVersion"
    /\ assoc.layers = <<"cotp">>

\* C24: data is delivered to the callers only on an association whose session
\* is open; once the dispatcher has returned nothing further is sent or
\* delivered; and once an error has occurred on the association (a request
\* whose send_data failed) no later request is sent on it.
C24_SessionLifecycle ==
    /\ []((\E r \in Requests : got[r] # NoPdu) \/ on_report # <<>> \/ taken # <<>>
            => assoc.pc = "spawned" /\ "session" \in Range(assoc.layers))
    /\ [](assoc.pc = "failed" => pc = "absent")
    /\ [](\A i, j \in 1..Len(taken) :
            (i < j /\ taken[i].encoded /\ ~taken[i].sent) => ~taken[j].sent)
    /\ [][pc = "done" => taken' = taken /\ got' = got /\ on_report' = on_report]_vars

\* C25: a configuration with a session selector of more than 16 bytes is
\* rejected with InvalidSelectorSize before connect has opened the TCP
\* connection or sent the CR.
C25_LongSelectorRejectedBeforeIo ==
    (/\ assoc.pc # "start"
     /\ \/ Len(assoc.config.local_s_sel) > MAX_SESSION_SELECTOR_SIZE
        \/ Len(assoc.config.remote_s_sel) > MAX_SESSION_SELECTOR_SIZE)
    => /\ assoc.pc = "failed"
       /\ assoc.error = "InvalidSelectorSize"
       /\ assoc.io = <<>>

\* C27: the ACSE exchange completes only on an AARE whose result is 0; on any
\* other result connect has failed with AareResultNotSuccessful, no Initiate
\* response has been evaluated and no dispatcher runs; a dispatcher is only
\* ever started after an AARE with result 0.
C27_AcseConnectOnlyOnAcceptedAare ==
    /\ [](assoc.aare # NoAare =>
            /\ "acse" \in Range(assoc.layers) =>
                  assoc.aare.type = "aare" /\ assoc.aare.result = 0
            /\ (assoc.aare.type = "aare" /\ assoc.aare.result # 0) =>
                  /\ assoc.pc = "failed"
                  /\ assoc.error = "AareResultNotSuccessful"
                  /\ assoc.response = NoReply
                  /\ "mms" \notin Range(assoc.layers)
                  /\ pc = "absent")
    /\ [][pc = "absent" /\ pc' # "absent" =>
            assoc.aare.type = "aare" /\ assoc.aare.result = 0]_vars

\* an AARE with result 1 that carries a well-formed Initiate reply
C27_Witness ==
    /\ assoc.aare = Aare("aare", 1, "single_ASN1_type")
    /\ assoc.pc = "failed"
    /\ assoc.layers = <<"cotp", "session", "presentation">>

\* C26: receive_data of the Presentation layer returns bytes only for
\* fully-encoded-data with at least one PDV-list in which every PDV-list that
\* names a transfer syntax names BER, and the bytes are a single-ASN1-type
\* value; simply-encoded data, an empty list, a PDV-list with another transfer
\* syntax, or a value that is not single-ASN1-type makes it fail.
C26_ReceiveOnlyBerPdvs ==
    (presentation.pc = "received" /\ presentation.result.ok) =>
        LET pdvs == presentation.user_data.pdvs
        IN /\ presentation.user_data.type = "fully_encoded_data"
           /\ pdvs # <<>>
           /\ \A i \in 1..Len(pdvs) :
                 pdvs[i].transfer_syntax_name \in {None, Some(BER_OID)}
           /\ \E i \in 1..Len(pdvs) :
                 /\ pdvs[i].presentation_data_values.type = "single_ASN1_type"
                 /\ pdvs[i].presentation_data_values.data = presentation.result.value[1]

\* what the pages of the first n responses add up to
RECURSIVE PagesUpTo(_)
PagesUpTo(n) ==
    IF n = 0 THEN <<>>
    ELSE PagesUpTo(n - 1) \o Extended(call.op, call.responses[n].items)
NoDuplicates(list) ==
    \A i, j \in 1..Len(list) : i < j => list[i] # list[j]

\* C28: get_name_list and file_directory send their first request without
\* continue_after and every later request with the last identifier (file
\* name) of the page before it; what they return is the pages in the order
\* received, and it holds no item twice when the server has honoured
\* continue_after in every response.
C28_PagesConcatenatedWithoutDuplicates ==
    call.op \in {"get_name_list", "file_directory"} =>
        /\ call.requests # <<>> => call.requests[1].continue_after = None
        /\ \A i \in 2..Len(call.requests) :
              LET page == call.responses[i - 1].items
              IN page # <<>> =>
                   call.requests[i].continue_after =
                      IF call.op = "get_name_list" THEN Some(page[Len(page)])
                      ELSE Some(page[Len(page)].file_name)
        /\ (call.pc = "returned" /\ call.result.ok) =>
              /\ call.result.value = PagesUpTo(Len(call.responses))
              /\ call.honoured => NoDuplicates(call.result.value)

\* C29: a paginated loop that has received a response with more_follows =
\* false has returned what it accumulated, and a call that has returned
\* makes no further request; every response with more_follows = true is
\* followed by exactly one further request, so the requests made are one
\* more than the responses with more_follows = true.
C29_LoopFollowsMoreFollows ==
    /\ [](call.op \in {"get_name_list", "file_directory", "file_read"} =>
            LET n == Len(call.responses)
                pages == {i \in 1..n : call.responses[i].kind = "page"}
                more == {i \in pages : call.responses[i].more_follows}
            IN /\ \A i \in 1..n : i < n => i \in more
               /\ (n > 0 /\ n \in pages \ more) =>
                     /\ call.pc = "returned"
                     /\ call.result = Ok(PagesUpTo(n))
                     /\ Len(call.requests) = Cardinality(more) + 1
               /\ (call.pc = "returned" /\ call.result.ok) => (n > 0 /\ n \in pages \ more)
               /\ call.pc = "awaiting" => Len(call.requests) = Cardinality(more) + 1
               /\ call.pc = "request" => Len(call.requests) = Cardinality(more))
    /\ [][call.pc = "request" /\ call.responses # <<>> =>
            /\ call'.pc \in {"awaiting", "returned"}
            /\ call'.pc = "awaiting" => Len(call'.requests) = Len(call.requests) + 1
            /\ call'.pc = "returned" => call'.result = Err("SendRequest")]_vars
    /\ [][call.pc = "returned" => call' = call]_vars

\* file_read has put two pages together and returned after the second
C29_Witness ==
    /\ call.op = "file_read"
    /\ call.pc = "returned"
    /\ Len(call.requests) = 2
    /\ call.responses[1].more_follows
    /\ ~call.responses[2].more_follows
    /\ call.result = Ok(FileData)

\* C30: read returns the values of the access results in the order of the
\* response when all of them are successes, and otherwise the DataAccess
\* error of the first failure of the list, without any value.
C30_ReadFirstFailure ==
    (call.op = "read" /\ call.pc = "returned" /\ call.responses # <<>>
        /\ call.responses[1].kind = "read") =>
        LET results == call.responses[1].items
            failures == {i \in 1..Len(results) : results[i].type = "failure"}
        IN /\ failures = {} =>
                 /\ call.result.ok
                 /\ call.result.value = [i \in 1..Len(results) |-> results[i].value]
           /\ failures # {} =>
                 /\ ~call.result.ok
                 /\ call.result.error = "DataAccess"
                 /\ \E first \in failures :
                       /\ \A i \in failures : first <= i
                       /\ call.result.value = <<results[first].value>>

\* a success followed by two different failures: the error is the first one
C30_Witness ==
    /\ call.op = "read"
    /\ call.pc = "returned"
    /\ call.responses =
          <<Response("read", FALSE, <<AccessResult("success", 7), AccessResult("failure", 10),
                                      AccessResult("failure", 3)>>)>>
    /\ call.result = DataAccess(10)

\* C31: a call whose request was answered with a Confirmed-Response of
\* another service than the one it issued has returned
\* UnexpectedServiceResponse, without any data of that response, and has made
\* no request after it; a call that returned data was answered by its own
\* service only.
C31_UnexpectedServiceResponse ==
    /\ [](\A i \in 1..Len(call.responses) :
            LET own == IF call.op = "read" THEN "read" ELSE "page"
            IN call.responses[i].kind \notin {own, "error"} =>
                 /\ i = Len(call.responses)
                 /\ call.pc = "returned"
                 /\ call.result = Err("UnexpectedServiceResponse")
                 /\ Len(call.requests) = i)
    /\ [](call.pc = "returned" /\ call.result.ok =>
            \A i \in 1..Len(call.responses) :
               call.responses[i].kind = IF call.op = "read" THEN "read" ELSE "page")

\* get_name_list received a page, asked for the next one and was answered
\* with a Read response
C31_Witness ==
    /\ call.op = "get_name_list"
    /\ call.pc = "returned"
    /\ Len(call.requests) = 2
    /\ call.responses[2] = Response("read", FALSE, <<AccessResult("success", 7)>>)
    /\ call.result = Err("UnexpectedServiceResponse")

\* C37: whenever read_file has returned after a successful FileOpen, it has
\* issued a FileClose for the frsm id of that FileOpen, whether the FileRead
\* loop succeeded or failed.
C37_ReadFileAlwaysCloses ==
    (call.pc = "returned" /\ call.frsm_id # None) =>
        \E i \in 1..Len(call.sent) : call.sent[i] = FileRequest("fileClose", call.frsm_id)

\* C40: in get_name_list and file_directory, once a page has brought at
\* least one entry, every later request of the call carries as
\* continue_after the last entry received so far, also after an empty page
\* with more_follows = true.
C40_ContinueAfterNeverResets ==
    call.op \in {"get_name_list", "file_directory"} =>
        \A i \in 2..Len(call.requests) :
           LET before == {j \in 1..(i - 1) : call.responses[j].items # <<>>}
           IN before # {} =>
                LET page == call.responses[CHOOSE j \in before : \A k \in before : k <= j].items
                IN call.requests[i].continue_after =
                      IF call.op = "get_name_list" THEN Some(page[Len(page)])
                      ELSE Some(page[Len(page)].file_name)

\* C32: a PDU that does not decode, a Confirmed-Response whose invoke id has
\* no map entry, a Reject without original invoke id, and an
\* Initiate-Response, Initiate-Error or Conclude-Request PDU change neither
\* the response map nor the invoke-id counter nor any waiter, and the
\* dispatcher stays in its loop.
C32_IgnoredPdusChangeNothing ==
    [][ (\/ last'.op = "decode_err"
         \/ /\ last'.op = "recv"
            /\ \/ /\ last'.pdu.type = "confirmed_Response"
                  /\ last'.pdu.invoke_id \notin DOMAIN response_map
               \/ /\ last'.pdu.type = "reject"
                  /\ last'.pdu.invoke_id = NoId
               \/ last'.pdu \in LoggedPdus)
        => /\ UNCHANGED <<response_map, invoke_id, caller, got>>
           /\ pc = "select" /\ pc' = "select" ]_vars

\* a Confirmed-Response with an id that was never assigned arrives while a
\* request is outstanding and its caller waits
C32_Witness ==
    /\ last.op = "recv"
    /\ last.pdu.type = "confirmed_Response"
    /\ last.pdu.invoke_id >= invoke_id
    /\ pc = "select"
    /\ \E k \in DOMAIN response_map : caller[response_map[k]] = "waiting"

\* C33: on_report is awaited by the dispatcher itself: a call of on_report
\* puts the dispatcher into the callback, and until the callback returns it
\* takes no request from the queue, sends nothing, completes or closes no
\* waiter and handles no further PDU; the requests queued meanwhile keep
\* their order, and the dispatcher is back in its loop afterwards.
C33_OnReportRunsInline ==
    /\ [][on_report' # on_report => pc = "select" /\ pc' = "on_report"]_vars
    /\ [][pc = "on_report" =>
            /\ UNCHANGED <<taken, rx_reports, on_report, response_map, invoke_id, got>>
            /\ \A r \in Requests :
                  caller'[r] \in {"ok", "recv_err"} => caller'[r] = caller[r]
            /\ Len(queue) <= Len(queue')
            /\ \A i \in 1..Len(queue) : queue'[i] = queue[i]
            /\ pc' \in {"on_report", "select"}]_vars

\* the callback runs while one request is outstanding and another one has
\* been queued
C33_Witness ==
    /\ pc = "on_report"
    /\ queue # <<>>
    /\ \E k \in DOMAIN response_map : caller[response_map[k]] = "waiting"
    /\ last.op = "submit"

\* C35: while the dispatcher runs, every key of the response map is below
\* the next invoke id; a step adds an entry exactly when it took a request
\* whose send_data succeeded (under the id it went out with, in that same
\* step, before any further PDU is handled) and removes an entry exactly
\* when it handled a response, error or reject with that id; so the map
\* holds the requests sent and not yet answered.
C35_MapHoldsSentUnanswered ==
    /\ [](\A k \in DOMAIN response_map :
            /\ k < invoke_id
            /\ \E i \in 1..Len(taken) :
                  taken[i].sent /\ taken[i].invoke_id = k /\ taken[i].req = response_map[k])
    /\ [][pc' # "done" =>
            LET took == Len(taken') = Len(taken) + 1
                added == IF took /\ taken'[Len(taken')].sent
                         THEN {taken'[Len(taken')].invoke_id} ELSE {}
                answered == IF ~took /\ last'.op = "recv" /\ last'.pdu.type \in ConfirmedTypes
                            THEN {last'.pdu.invoke_id} ELSE {}
            IN /\ DOMAIN response_map' = (DOMAIN response_map \cup added) \ answered
               /\ \A k \in DOMAIN response_map' \cap DOMAIN response_map :
                     response_map'[k] = response_map[k]
               /\ took => UNCHANGED <<rx_reports, on_report, got>>]_vars

\* request 1 was sent and answered, request 2 failed to go out, request 3 was
\* sent and is the only entry
C35_Witness ==
    /\ Len(taken) = 3
    /\ taken[1].sent /\ ~taken[2].sent /\ taken[3].sent
    /\ caller[1] = "ok"
    /\ DOMAIN response_map = {1}
    /\ response_map[1] = 3
    /\ invoke_id = 2

C38_ShortLengthIsAnError ==
    (codec.pc = "decoded" /\ codec.kind = "header") =>
        /\ ~codec.output.ok
        /\ codec.output.error # "panic"

\* C39: Spdu::from_bytes answers a CONNECT or ACCEPT SPDU that ends inside a
\* parameter header or inside the Connect-Accept-Item with an error value or
\* a parsed SPDU, never with an access beyond the end of the bytes.
C39_CutSpduIsAnError ==
    (codec.pc = "decoded" /\ codec.kind = "cut") => codec.output.error # "panic"

\* C34: every SDU the server sends is returned by receive_data exactly once,
\* intact and in wire order, whatever the interleaving with request
\* submissions: what has been decoded is always the first SDUs of the server
\* in their order, no read fails, and once every byte has arrived and been
\* read every SDU has been decoded.
C34_EverySduDecodedOnce ==
    cotp_connection.pc # "unused" =>
      /\ Len(cotp_connection.decoded) <= Len(cotp_connection.sdus)
      /\ cotp_connection.decoded
           = SubSeq(cotp_connection.sdus, 1, Len(cotp_connection.decoded))
      /\ cotp_connection.error = "none"
      /\ (cotp_connection.wire = <<>> /\ cotp_connection.socket = <<>>
            => cotp_connection.decoded = cotp_connection.sdus)

====
